---- MODULE Spec2Model ----
(***************************************************************************)
(* Model of the Orion platform Application controller                      *)
(* (pkg/controllers/application_controller.go, environment-aware revision, *)
(* and pkg/apis/platform/v1alpha1/types.go).                               *)
(*                                                                         *)
(* The declarative store holds one Application record (spec + status) and  *)
(* the objects the controller creates.  A reconcile pass is a sequence of  *)
(* store calls; each call is one action, and the in-memory work between    *)
(* two calls belongs to the action of the call that precedes it.  Every    *)
(* store call may fail.  The store accepts an update of the record only    *)
(* from a copy that carries the record's current resourceVersion, which    *)
(* every accepted write changes.  status.lastUpdated (a wall-clock stamp)  *)
(* is not modelled.                                                        *)
(***************************************************************************)
EXTENDS Integers, Sequences, FiniteSets, TLC

VARIABLES
    spec,       \* the stored Application.Spec (desired state)
    status,     \* the stored Application.Status (observed state, persisted)
    objects,    \* the set of objects in the store: [kind, name, app, ownerReferences]
    workload,   \* content of the application's Deployment object (or NoWorkload)
    osenv,      \* the operator process's environment indicators
    pc,         \* pc[w]: position of worker w's reconcile pass
    app,        \* app[w]: the pass's in-memory copy of the record: [name, spec, status]
    todo,       \* todo[w]: provisioner steps the pass has still to run
    result,     \* result[w]: what the pass returned: [requeueAfter, err]
    start,      \* start[w]: the status the pass loaded (kept for the pass's lifetime)
    did,        \* did[w]: what the pass has done so far (set of step tags)
    edits,      \* number of external edits of the desired-state record so far
    inSync      \* the workers whose in-memory copy carries the record's current
                \* metadata.resourceVersion

vars == <<spec, status, objects, workload, osenv, pc, app, todo, result, start, did, edits,
          inSync>>

-----------------------------------------------------------------------------
(* Bounds of the model *)

MaxReplicas == 2
MaxEdits == 1

-----------------------------------------------------------------------------
(* types.go: constants *)

EnvironmentLocal == "local"
EnvironmentAWS == "aws"
EnvironmentAuto == "auto"
EnvUnset == ""

PhaseEmpty == ""
PhasePending == "Pending"
PhaseProvisioningInfra == "ProvisioningInfrastructure"
PhaseDeploying == "Deploying"
PhaseReady == "Ready"
PhaseFailed == "Failed"

DefaultReplicas == 1
DefaultPort == 8080
MinPort == 1
MaxPort == 65535

(* Requeue delays of reconcileApplication, in seconds; 0 is ctrl.Result{} *)
RequeueNone == 0
RequeueAfterProvision == 10
RequeueAfterDeploy == 15
RequeueStillDeploying == 15
RequeueReadinessError == 30
RequeueUnknownPhase == 60
RequeueDeployFailed == 120
RequeueProvisionFailed == 300
RequeueHealthCheck == 300

AppName == "simple-nginx"

Absent == [present |-> FALSE, environment |-> EnvUnset, bucketName |-> ""]

EmptyStatus ==
    [phase |-> PhaseEmpty, message |-> "", readyReplicas |-> 0,
     infrastructureReady |-> FALSE,
     databaseEndpoint |-> "", databaseEnvironment |-> EnvUnset,
     redisEndpoint |-> "", redisEnvironment |-> EnvUnset,
     s3BucketName |-> "", s3Endpoint |-> "", s3Environment |-> EnvUnset]

NoWorkload == [present |-> FALSE, replicas |-> 0, image |-> "", port |-> 0, readyReplicas |-> 0]

-----------------------------------------------------------------------------
(* types.go: methods of Application; a is the record [name, spec, status] *)

UpdateStatus(st, phase, message) ==
    [st EXCEPT !.phase = phase, !.message = message]

NeedsDatabase(a) == a.spec.infrastructure.postgresql.present
NeedsCache(a) == a.spec.infrastructure.redis.present
NeedsStorage(a) == a.spec.infrastructure.s3.present

GetDatabaseEnvironment(a) ==
    IF a.spec.infrastructure.postgresql.present
       /\ a.spec.infrastructure.postgresql.environment # ""
    THEN a.spec.infrastructure.postgresql.environment
    ELSE IF a.spec.infrastructure.environment # ""
         THEN a.spec.infrastructure.environment
         ELSE EnvironmentAuto

GetRedisEnvironment(a) ==
    IF a.spec.infrastructure.redis.present
       /\ a.spec.infrastructure.redis.environment # ""
    THEN a.spec.infrastructure.redis.environment
    ELSE IF a.spec.infrastructure.environment # ""
         THEN a.spec.infrastructure.environment
         ELSE EnvironmentAuto

GetS3Environment(a) ==
    IF a.spec.infrastructure.s3.present
       /\ a.spec.infrastructure.s3.environment # ""
    THEN a.spec.infrastructure.s3.environment
    ELSE IF a.spec.infrastructure.environment # ""
         THEN a.spec.infrastructure.environment
         ELSE EnvironmentAuto

(* Application.isLocalEnvironment: "return true // For now, default to local" *)
AppIsLocalEnvironment(a) == TRUE

IsLocalDatabase(a) ==
    LET e == GetDatabaseEnvironment(a)
    IN  e = EnvironmentLocal \/ (e = EnvironmentAuto /\ AppIsLocalEnvironment(a))

IsLocalRedis(a) ==
    LET e == GetRedisEnvironment(a)
    IN  e = EnvironmentLocal \/ (e = EnvironmentAuto /\ AppIsLocalEnvironment(a))

IsLocalS3(a) ==
    LET e == GetS3Environment(a)
    IN  e = EnvironmentLocal \/ (e = EnvironmentAuto /\ AppIsLocalEnvironment(a))

(* Mutant: ValidateSpec without the exemption of port 0 *)
ValidateSpecPortRequired(a) ==
    IF a.spec.image = "" THEN "image is required"
    ELSE IF a.spec.port < MinPort \/ a.spec.port > MaxPort
         THEN "port must be between 1 and 65535"
    ELSE IF a.spec.replicas < 0 THEN "replicas cannot be negative"
    ELSE ""

(* ValidateSpec: the error text, or "" for nil *)
ValidateSpec(a) ==
    IF a.spec.image = "" THEN "image is required"
    ELSE IF a.spec.port # 0 /\ (a.spec.port < MinPort \/ a.spec.port > MaxPort)
         THEN "port must be between 1 and 65535"
    ELSE IF a.spec.replicas < 0 THEN "replicas cannot be negative"
    ELSE ""

(* Mutant: GetReplicas without the default *)
GetReplicasAsDeclared(a) == a.spec.replicas

(* types.go 302-307 *)
GetReplicas(a) == IF a.spec.replicas <= 0 THEN DefaultReplicas ELSE a.spec.replicas

GetPort(a) == IF a.spec.port <= 0 THEN DefaultPort ELSE a.spec.port

(* ApplicationController.isLocalEnvironment: detection from the process     *)
(* environment.  No caller in the controller uses it.                       *)
ControllerIsLocalEnvironment(env) ==
    IF env.AWS_ACCESS_KEY_ID /\ env.AWS_SECRET_ACCESS_KEY THEN FALSE
    ELSE IF env.KUBERNETES_SERVICE_HOST /\ (env.AWS_REGION \/ env.GCP_PROJECT) THEN FALSE
    ELSE TRUE

-----------------------------------------------------------------------------
(* application_controller.go: the provisioner.  provisionInfrastructure is  *)
(* a sequence of steps: a create call on the store, or an in-memory write   *)
(* of a kind's endpoint and placement into app.Status.                      *)

StoreErr == "store error"

(* client.ObjectKey: the kind and the name identify an object of the namespace *)
Obj(kind, name) == [kind |-> kind, name |-> name]

(* The object a create call of a's pass sends: its ObjectMeta carries the   *)
(* name, the namespace and the labels ("app": app.Name), and no owner       *)
(* reference.                                                               *)
NewObject(key, a) ==
    [kind |-> key.kind, name |-> key.name, app |-> a.name, ownerReferences |-> {}]

KeyOf(o) == Obj(o.kind, o.name)

Exists(objs, key) == \E o \in objs : KeyOf(o) = key

(* r.Create on the store: an object of that key stays as it is *)
Create(objs, o) == IF Exists(objs, KeyOf(o)) THEN objs ELSE objs \cup {o}

(* Mutant: the create's error is not filtered with errors.IsAlreadyExists *)
CreateFailedOnExisting(objs, key, ok) == ~ok \/ Exists(objs, key)

(* err != nil && !errors.IsAlreadyExists(err) after a create of key *)
CreateFailed(objs, key, ok) == ~ok

CreateStep(kind, name, wrap) == [t |-> "create", obj |-> Obj(kind, name), wrap |-> wrap]
StatusStep(fn) == [t |-> "status", fn |-> fn]

provisionLocalPostgreSQL(a) ==
    << CreateStep("PersistentVolumeClaim", a.name \o "-postgres-pvc",
                  "failed to provision local PostgreSQL: failed to create PostgreSQL PVC: "),
       CreateStep("StatefulSet", a.name \o "-postgres",
                  "failed to provision local PostgreSQL: failed to create PostgreSQL StatefulSet: "),
       CreateStep("Service", a.name \o "-postgres",
                  "failed to provision local PostgreSQL: failed to create PostgreSQL Service: "),
       StatusStep("LocalPostgreSQL") >>

provisionLocalRedis(a) ==
    << CreateStep("Deployment", a.name \o "-redis",
                  "failed to provision local Redis: failed to create Redis Deployment: "),
       CreateStep("Service", a.name \o "-redis",
                  "failed to provision local Redis: failed to create Redis Service: "),
       StatusStep("LocalRedis") >>

provisionLocalS3(a) ==
    << CreateStep("Deployment", a.name \o "-s3",
                  "failed to provision local S3 (MinIO): failed to create MinIO Deployment: "),
       CreateStep("Service", a.name \o "-s3",
                  "failed to provision local S3 (MinIO): failed to create MinIO Service: "),
       StatusStep("LocalS3") >>

provisionAWSPostgreSQL(a) == << StatusStep("AWSPostgreSQL") >>
provisionAWSRedis(a) == << StatusStep("AWSRedis") >>
provisionAWSS3(a) == << StatusStep("AWSS3") >>

(* Mutant: provisionInfrastructure handles the cache before the database *)
provisionInfrastructureCacheFirst(a) ==
    (IF NeedsCache(a)
     THEN IF IsLocalRedis(a) THEN provisionLocalRedis(a) ELSE provisionAWSRedis(a)
     ELSE << >>)
    \o
    (IF NeedsDatabase(a)
     THEN IF IsLocalDatabase(a) THEN provisionLocalPostgreSQL(a) ELSE provisionAWSPostgreSQL(a)
     ELSE << >>)
    \o
    (IF NeedsStorage(a)
     THEN IF IsLocalS3(a) THEN provisionLocalS3(a) ELSE provisionAWSS3(a)
     ELSE << >>)

(* The steps of provisionInfrastructure up to "Mark infrastructure as ready" *)
provisionInfrastructure(a) ==
    (IF NeedsDatabase(a)
     THEN IF IsLocalDatabase(a) THEN provisionLocalPostgreSQL(a) ELSE provisionAWSPostgreSQL(a)
     ELSE << >>)
    \o
    (IF NeedsCache(a)
     THEN IF IsLocalRedis(a) THEN provisionLocalRedis(a) ELSE provisionAWSRedis(a)
     ELSE << >>)
    \o
    (IF NeedsStorage(a)
     THEN IF IsLocalS3(a) THEN provisionLocalS3(a) ELSE provisionAWSS3(a)
     ELSE << >>)

(* The "Update application status" tail of each provision function.  now is *)
(* time.Now().Unix() as text, read by provisionAWSS3 only.                  *)
(* Mutant: the local database endpoint without its port *)
SetLocalPostgreSQLNoPort(a) ==
    [a.status EXCEPT !.databaseEndpoint = a.name \o "-postgres",
                     !.databaseEnvironment = EnvironmentLocal]

SetLocalPostgreSQL(a) ==
    [a.status EXCEPT !.databaseEndpoint = a.name \o "-postgres:5432",
                     !.databaseEnvironment = EnvironmentLocal]

SetLocalRedis(a) ==
    [a.status EXCEPT !.redisEndpoint = a.name \o "-redis:6379",
                     !.redisEnvironment = EnvironmentLocal]

SetLocalS3(a) ==
    [a.status EXCEPT !.s3BucketName = IF a.spec.infrastructure.s3.bucketName # ""
                                      THEN a.spec.infrastructure.s3.bucketName
                                      ELSE "default-bucket",
                     !.s3Endpoint = a.name \o "-s3:9000",
                     !.s3Environment = EnvironmentLocal]

SetAWSPostgreSQL(a) ==
    [a.status EXCEPT !.databaseEndpoint = a.name \o "-db.cluster-xyz.us-west-2.rds.amazonaws.com",
                     !.databaseEnvironment = EnvironmentAWS]

SetAWSRedis(a) ==
    [a.status EXCEPT !.redisEndpoint = a.name \o "-cache.xyz.cache.amazonaws.com",
                     !.redisEnvironment = EnvironmentAWS]

SetAWSS3(a, now) ==
    [a.status EXCEPT !.s3BucketName = IF a.spec.infrastructure.s3.bucketName # ""
                                      THEN a.spec.infrastructure.s3.bucketName
                                      ELSE a.name \o "-storage-" \o now,
                     !.s3Environment = EnvironmentAWS]

ApplyStatusStep(a, fn, now) ==
    CASE fn = "LocalPostgreSQL" -> SetLocalPostgreSQL(a)
      [] fn = "LocalRedis"      -> SetLocalRedis(a)
      [] fn = "LocalS3"         -> SetLocalS3(a)
      [] fn = "AWSPostgreSQL"   -> SetAWSPostgreSQL(a)
      [] fn = "AWSRedis"        -> SetAWSRedis(a)
      [] fn = "AWSS3"           -> SetAWSS3(a, now)

(* Runs the in-memory steps at the head of td; stops at the next create call *)
RECURSIVE RunInMemory(_, _, _)
RunInMemory(a, td, now) ==
    IF td = << >> \/ Head(td).t = "create"
    THEN [app |-> a, todo |-> td]
    ELSE RunInMemory([a EXCEPT !.status = ApplyStatusStep(a, Head(td).fn, now)], Tail(td), now)

(* Mutant: provisionInfrastructure leaves infrastructureReady as it was *)
MarkInfrastructureReadyOmitted(a) == a

(* provisionInfrastructure line 198, once every kind is done *)
MarkInfrastructureReady(a) == [a EXCEPT !.status.infrastructureReady = TRUE]

-----------------------------------------------------------------------------
(* application_controller.go: reconcileApplication's dispatch on the phase *)

(* Mutant: a Failed record is provisioned again, as a new one is *)
BranchRetriesFailed(st) ==
    IF st.phase = PhaseEmpty \/ st.phase = PhasePending \/ st.phase = PhaseFailed THEN "provision"
    ELSE IF st.phase = PhaseProvisioningInfra /\ st.infrastructureReady THEN "deploy"
    ELSE IF st.phase = PhaseDeploying THEN "check"
    ELSE IF st.phase = PhaseReady THEN "healthy"
    ELSE "unknown"

(* Mutant: the deployment branch is taken on infrastructureReady alone *)
BranchDeploysWhenInfraReady(st) ==
    IF st.phase = PhaseEmpty \/ st.phase = PhasePending THEN "provision"
    ELSE IF st.infrastructureReady /\ st.phase \notin {PhaseDeploying, PhaseReady} THEN "deploy"
    ELSE IF st.phase = PhaseDeploying THEN "check"
    ELSE IF st.phase = PhaseReady THEN "healthy"
    ELSE "unknown"

(* Mutant: a Ready record is provisioned again, to follow its spec *)
BranchReprovisionsReady(st) ==
    IF st.phase = PhaseEmpty \/ st.phase = PhasePending \/ st.phase = PhaseReady THEN "provision"
    ELSE IF st.phase = PhaseProvisioningInfra /\ st.infrastructureReady THEN "deploy"
    ELSE IF st.phase = PhaseDeploying THEN "check"
    ELSE "unknown"

(* Mutant: the deployment branch does not look at infrastructureReady *)
BranchDeploysUnready(st) ==
    IF st.phase = PhaseEmpty \/ st.phase = PhasePending THEN "provision"
    ELSE IF st.phase = PhaseProvisioningInfra THEN "deploy"
    ELSE IF st.phase = PhaseDeploying THEN "check"
    ELSE IF st.phase = PhaseReady THEN "healthy"
    ELSE "unknown"

(* Mutant: a Ready record has its readiness checked again on every pass *)
BranchRechecksReady(st) ==
    IF st.phase = PhaseEmpty \/ st.phase = PhasePending THEN "provision"
    ELSE IF st.phase = PhaseProvisioningInfra /\ st.infrastructureReady THEN "deploy"
    ELSE IF st.phase = PhaseDeploying \/ st.phase = PhaseReady THEN "check"
    ELSE "unknown"

Branch(st) ==
    IF st.phase = PhaseEmpty \/ st.phase = PhasePending THEN "provision"
    ELSE IF st.phase = PhaseProvisioningInfra /\ st.infrastructureReady THEN "deploy"
    ELSE IF st.phase = PhaseDeploying THEN "check"
    ELSE IF st.phase = PhaseReady THEN "healthy"
    ELSE "unknown"

DeploymentObj(a) == Obj("Deployment", a.name)
ServiceObj(a) == Obj("Service", a.name)

(* The Deployment createOrUpdateDeployment builds *)
BuildDeployment(a) ==
    [present |-> TRUE, replicas |-> GetReplicas(a), image |-> a.spec.image,
     port |-> GetPort(a), readyReplicas |-> 0]

(* Mutant: createOrUpdateDeployment overwrites the Deployment it finds *)
DeploymentOverwritten(objs, d, a) == BuildDeployment(a)

(* The Deployment of a's name in the store after createOrUpdateDeployment:  *)
(* the one found there, else the one built                                  *)
DeploymentAfterCreate(objs, d, a) ==
    IF Exists(objs, DeploymentObj(a)) THEN d ELSE BuildDeployment(a)

Result(requeueAfter, err) == [requeueAfter |-> requeueAfter, err |-> err]

-----------------------------------------------------------------------------
(* Inputs of the model *)

Workers == {1}

Images == {"", "nginx:latest"}
Ports == {0, 80, 70000}
Envs == {EnvUnset, EnvironmentLocal, EnvironmentAWS, EnvironmentAuto}
Timestamps == {"1700000000", "1700000300"}

Requested(e, b) == [present |-> TRUE, environment |-> e, bucketName |-> b]

AppSpec(image, port, replicas, infra) ==
    [image |-> image, port |-> port, replicas |-> replicas, infrastructure |-> infra]

Infra(e, pg, rd, s3) == [environment |-> e, postgresql |-> pg, redis |-> rd, s3 |-> s3]

(* image, port and replicas: the valid combinations, and each single fault *)
Scalars ==
    { <<"nginx:latest", 80, MaxReplicas>>, <<"nginx:latest", 0, 0>>,
      <<"", 80, MaxReplicas>>, <<"nginx:latest", 70000, MaxReplicas>>,
      <<"nginx:latest", 80, -1>> }

InfraChoices ==
    { Infra(e, pg, rd, s3) :
        e \in {EnvUnset, EnvironmentAWS},
        pg \in {Absent, Requested(EnvUnset, ""), Requested(EnvironmentLocal, "")},
        rd \in {Absent, Requested(EnvUnset, "")},
        s3 \in {Absent, Requested(EnvUnset, ""), Requested(EnvironmentLocal, "assets")} }

InitSpecs == { AppSpec(sc[1], sc[2], sc[3], i) : sc \in Scalars, i \in InfraChoices }

NoEnv ==
    [AWS_ACCESS_KEY_ID |-> FALSE, AWS_SECRET_ACCESS_KEY |-> FALSE,
     KUBERNETES_SERVICE_HOST |-> FALSE, AWS_REGION |-> FALSE, GCP_PROJECT |-> FALSE]

(* Objects left in the namespace by someone else before the record is seen *)
LeftOverBy == [name |-> "legacy"]
LeftOver(name) ==
    { NewObject(Obj("Deployment", name), LeftOverBy),
      NewObject(Obj("PersistentVolumeClaim", name \o "-postgres-pvc"), LeftOverBy),
      NewObject(Obj("Service", name \o "-redis"), LeftOverBy) }
LeftOverWorkload ==
    [present |-> TRUE, replicas |-> MaxReplicas, image |-> "nginx:1.24", port |-> 80,
     readyReplicas |-> 0]

(* An external edit of the desired-state record *)
EditChoices(s) ==
    { [s EXCEPT !.image = IF s.image = "" THEN "nginx:latest" ELSE ""],
      [s EXCEPT !.image = "nginx:1.25"],
      [s EXCEPT !.replicas = IF s.replicas = 1 THEN MaxReplicas ELSE 1],
      [s EXCEPT !.infrastructure.environment =
           IF s.infrastructure.environment = EnvironmentAWS THEN EnvironmentLocal ELSE EnvironmentAWS],
      [s EXCEPT !.infrastructure.redis =
           IF s.infrastructure.redis.present THEN Absent ELSE Requested(EnvUnset, "")] }
    \ {s}

NoApp == [name |-> "", spec |-> AppSpec("", 0, 0, Infra(EnvUnset, Absent, Absent, Absent)),
          status |-> EmptyStatus]
NoResult == Result(RequeueNone, "")

-----------------------------------------------------------------------------
(* Initial states *)

InitPassOf(ws) ==
    /\ pc = [w \in ws |-> "idle"]
    /\ app = [w \in ws |-> NoApp]
    /\ todo = [w \in ws |-> << >>]
    /\ result = [w \in ws |-> NoResult]
    /\ start = [w \in ws |-> EmptyStatus]
    /\ did = [w \in ws |-> {}]
    /\ edits = 0
    /\ inSync = {}

InitPass == InitPassOf(Workers)

Init ==
    /\ spec \in InitSpecs
    /\ status = EmptyStatus
    /\ \/ objects = {} /\ workload = NoWorkload
       \/ objects = LeftOver(AppName) /\ workload = LeftOverWorkload
    /\ osenv = NoEnv
    /\ InitPass

-----------------------------------------------------------------------------
(* Reconcile, lines 33-63, and the dispatch of reconcileApplication: what   *)
(* the pass does with the record it loaded before its first store write.    *)

StatusUpdateErr == "failed to update Application status: " \o StoreErr

HealthyResult == Result(RequeueHealthCheck, "")
UnknownPhaseResult == Result(RequeueUnknownPhase, "")

(* Mutant: a failed validation writes the message and keeps the phase *)
ValidationFailedKeepsPhase(a, verr) ==
    UpdateStatus(a.status, a.status.phase, "Validation failed: " \o verr)

(* Reconcile lines 55-59: the in-memory status after a failed validation *)
ValidationFailed(a, verr) ==
    UpdateStatus(a.status, PhaseFailed, "Validation failed: " \o verr)

Dispatch(a) ==
    LET verr == ValidateSpec(a)
        b == Branch(a.status)
    IN  IF verr # ""
        THEN [pc |-> "persist_validation",
              status |-> ValidationFailed(a, verr),
              result |-> NoResult]
        ELSE CASE b = "provision" ->
                    [pc |-> "persist_provisioning",
                     status |-> UpdateStatus(a.status, PhaseProvisioningInfra,
                                    "Analyzing environment and provisioning infrastructure"),
                     result |-> NoResult]
               [] b = "deploy" ->
                    [pc |-> "persist_deploying",
                     status |-> UpdateStatus(a.status, PhaseDeploying, "Creating Kubernetes resources"),
                     result |-> NoResult]
               [] b = "check" ->
                    [pc |-> "check_ready", status |-> a.status, result |-> NoResult]
               [] b = "healthy" ->
                    [pc |-> "done", status |-> a.status, result |-> HealthyResult]
               [] OTHER ->
                    [pc |-> "done", status |-> a.status, result |-> UnknownPhaseResult]

(* Mutant: the readiness error is handed to the trigger mechanism *)
ReadinessErrorReturned == Result(RequeueNone, StoreErr)

(* What the pass returns in each of its return statements *)
GetFailedResult == Result(RequeueNone, StoreErr)
StatusFailedResult == Result(RequeueNone, StatusUpdateErr)
ValidationFailedResult == Result(RequeueNone, "")
ProvisionFailedResult == Result(RequeueProvisionFailed, "")
ProvisionedResult == Result(RequeueAfterProvision, "")
DeployFailedResult == Result(RequeueDeployFailed, "")
DeployedResult == Result(RequeueAfterDeploy, "")
ReadinessErrorResult == Result(RequeueReadinessError, "")
StillDeployingResult == Result(RequeueStillDeploying, "")
ReadyResult == Result(RequeueNone, "")

(* The pass returns: its in-memory record stays readable until the next pass *)
Return(w, res) ==
    /\ pc' = [pc EXCEPT ![w] = "done"]
    /\ result' = [result EXCEPT ![w] = res]
    /\ todo' = [todo EXCEPT ![w] = << >>]

(* Bookkeeping: the pass did the steps tagged tags *)
Did(w, tags) == did' = [did EXCEPT ![w] = @ \cup tags]

(* Mutant: the update is sent without the resourceVersion the copy carries *)
UpdateAcceptedUnversioned(w, ok) == ok

(* r.Status().Update(ctx, app): the store answers, and app, as r.Get or the *)
(* pass's last update filled it, carries the record's resourceVersion       *)
UpdateAccepted(w, ok) == ok /\ w \in inSync

(* An accepted update gives the record a new resourceVersion, which the     *)
(* client writes back into the pass's copy                                  *)
Updated(w, accepted) == inSync' = IF accepted THEN {w} ELSE inSync

(* r.Get of the record *)
Load(w, oks) ==
    /\ pc[w] \in {"idle", "done"}
    /\ \E ok \in oks :
         IF ok
         THEN LET a == [name |-> AppName, spec |-> spec, status |-> status]
                  d == Dispatch(a)
              IN  /\ app' = [app EXCEPT ![w] = [a EXCEPT !.status = d.status]]
                  /\ start' = [start EXCEPT ![w] = status]
                  /\ pc' = [pc EXCEPT ![w] = d.pc]
                  /\ result' = [result EXCEPT ![w] = d.result]
                  /\ did' = [did EXCEPT ![w] = {}]
                  /\ inSync' = inSync \cup {w}
         ELSE /\ app' = [app EXCEPT ![w] = NoApp]
              /\ start' = [start EXCEPT ![w] = EmptyStatus]
              /\ pc' = [pc EXCEPT ![w] = "done"]
              /\ result' = [result EXCEPT ![w] = GetFailedResult]
              /\ did' = [did EXCEPT ![w] = {"fail:get"}]
              /\ inSync' = inSync \ {w}
    /\ todo' = [todo EXCEPT ![w] = << >>]
    /\ UNCHANGED <<spec, status, objects, workload, osenv, edits>>

(* updateApplicationStatus after a validation failure, line 58 *)
PersistValidation(w, oks) ==
    /\ pc[w] = "persist_validation"
    /\ \E ok \in oks :
         IF UpdateAccepted(w, ok)
         THEN /\ status' = app[w].status
              /\ Updated(w, TRUE)
              /\ Return(w, ValidationFailedResult)
              /\ UNCHANGED did
         ELSE /\ Return(w, StatusFailedResult)
              /\ Updated(w, FALSE)
              /\ Did(w, {"fail:status"})
              /\ UNCHANGED status
    /\ UNCHANGED <<spec, objects, workload, osenv, app, start, edits>>

(* The provisioner runs from the step at the head of td to its next store   *)
(* call; with no step left it marks the infrastructure ready (line 198).    *)
Provisioning(w, a, td, now) ==
    LET r == RunInMemory(a, td, now)
    IN  IF r.todo = << >>
        THEN /\ app' = [app EXCEPT ![w] = MarkInfrastructureReady(r.app)]
             /\ todo' = [todo EXCEPT ![w] = << >>]
             /\ pc' = [pc EXCEPT ![w] = "persist_infra"]
        ELSE /\ app' = [app EXCEPT ![w] = r.app]
             /\ todo' = [todo EXCEPT ![w] = r.todo]
             /\ pc' = [pc EXCEPT ![w] = "provision"]

(* Mutant: the provisioner runs whatever the first persist answered *)
PersistProvisioningUnchecked(w, oks) ==
    /\ pc[w] = "persist_provisioning"
    /\ \E ok \in oks :
         /\ status' = IF UpdateAccepted(w, ok) THEN app[w].status ELSE status
         /\ Updated(w, UpdateAccepted(w, ok))
         /\ \E now \in Timestamps :
               Provisioning(w, app[w], provisionInfrastructure(app[w]), now)
         /\ Did(w, IF UpdateAccepted(w, ok) THEN {"provisioner"}
                   ELSE {"provisioner", "fail:status"})
    /\ UNCHANGED <<spec, objects, workload, osenv, result, start, edits>>

(* updateApplicationStatusOnly of phase ProvisioningInfrastructure, line 74, *)
(* then the call of provisionInfrastructure, line 79                         *)
PersistProvisioning(w, oks) ==
    /\ pc[w] = "persist_provisioning"
    /\ \E ok \in oks :
         IF UpdateAccepted(w, ok)
         THEN /\ status' = app[w].status
              /\ Updated(w, TRUE)
              /\ \E now \in Timestamps :
                    Provisioning(w, app[w], provisionInfrastructure(app[w]), now)
              /\ Did(w, {"provisioner"})
              /\ UNCHANGED result
         ELSE /\ Return(w, StatusFailedResult)
              /\ Updated(w, FALSE)
              /\ Did(w, {"fail:status"})
              /\ UNCHANGED <<status, app>>
    /\ UNCHANGED <<spec, objects, workload, osenv, start, edits>>

(* One r.Create of the provisioner: already-exists is not an error *)
ProvisionCreate(w, oks) ==
    /\ pc[w] = "provision"
    /\ LET step == Head(todo[w])
       IN  \E ok \in oks :
             IF ~CreateFailed(objects, step.obj, ok)
             THEN /\ objects' = Create(objects, NewObject(step.obj, app[w]))
                  /\ \E now \in Timestamps : Provisioning(w, app[w], Tail(todo[w]), now)
                  /\ Did(w, {"create"})
             ELSE /\ app' = [app EXCEPT ![w].status =
                                UpdateStatus(@, PhaseFailed,
                                    "Infrastructure failed: " \o step.wrap \o StoreErr)]
                  /\ pc' = [pc EXCEPT ![w] = "persist_failed_infra"]
                  /\ todo' = [todo EXCEPT ![w] = << >>]
                  /\ Did(w, {"create", "fail:create"})
                  /\ UNCHANGED objects
    /\ UNCHANGED <<spec, status, workload, osenv, result, start, edits, inSync>>

(* r.Status().Update at the end of provisionInfrastructure, line 202 *)
PersistInfra(w, oks) ==
    /\ pc[w] = "persist_infra"
    /\ \E ok \in oks :
         IF UpdateAccepted(w, ok)
         THEN /\ status' = app[w].status
              /\ Updated(w, TRUE)
              /\ Return(w, ProvisionedResult)
              /\ UNCHANGED <<app, did>>
         ELSE /\ Updated(w, FALSE)
              /\ app' = [app EXCEPT ![w].status =
                            UpdateStatus(@, PhaseFailed,
                                "Infrastructure failed: failed to update infrastructure status: "
                                \o StoreErr)]
              /\ pc' = [pc EXCEPT ![w] = "persist_failed_infra"]
              /\ Did(w, {"fail:infra-status"})
              /\ UNCHANGED <<status, result, todo>>
    /\ UNCHANGED <<spec, objects, workload, osenv, start, edits>>

(* Mutant: the persist of Failed is checked like the other persists *)
PersistFailedInfraChecked(w, oks) ==
    /\ pc[w] = "persist_failed_infra"
    /\ \E ok \in oks :
         /\ status' = IF UpdateAccepted(w, ok) THEN app[w].status ELSE status
         /\ Did(w, IF UpdateAccepted(w, ok) THEN {} ELSE {"fail:failed-status"})
         /\ Updated(w, UpdateAccepted(w, ok))
         /\ Return(w, IF UpdateAccepted(w, ok) THEN ProvisionFailedResult
                      ELSE StatusFailedResult)
    /\ UNCHANGED <<spec, objects, workload, osenv, app, start, edits>>

(* The unchecked updateApplicationStatusOnly of phase Failed, line 82 *)
PersistFailedInfra(w, oks) ==
    /\ pc[w] = "persist_failed_infra"
    /\ \E ok \in oks :
         /\ status' = IF UpdateAccepted(w, ok) THEN app[w].status ELSE status
         /\ Did(w, IF UpdateAccepted(w, ok) THEN {} ELSE {"fail:failed-status"})
         /\ Updated(w, UpdateAccepted(w, ok))
    /\ Return(w, ProvisionFailedResult)
    /\ UNCHANGED <<spec, objects, workload, osenv, app, start, edits>>

(* Mutant: the synthesizer runs whatever the persist of Deploying answered *)
PersistDeployingUnchecked(w, oks) ==
    /\ pc[w] = "persist_deploying"
    /\ \E ok \in oks :
         /\ status' = IF UpdateAccepted(w, ok) THEN app[w].status ELSE status
         /\ Updated(w, UpdateAccepted(w, ok))
         /\ Did(w, IF UpdateAccepted(w, ok) THEN {} ELSE {"fail:status"})
    /\ pc' = [pc EXCEPT ![w] = "create_deployment"]
    /\ UNCHANGED <<spec, objects, workload, osenv, app, start, edits, result, todo>>

(* updateApplicationStatusOnly of phase Deploying, line 95 *)
PersistDeploying(w, oks) ==
    /\ pc[w] = "persist_deploying"
    /\ \E ok \in oks :
         IF UpdateAccepted(w, ok)
         THEN /\ status' = app[w].status
              /\ Updated(w, TRUE)
              /\ pc' = [pc EXCEPT ![w] = "create_deployment"]
              /\ UNCHANGED <<result, todo, did>>
         ELSE /\ Return(w, StatusFailedResult)
              /\ Updated(w, FALSE)
              /\ Did(w, {"fail:status"})
              /\ UNCHANGED status
    /\ UNCHANGED <<spec, objects, workload, osenv, app, start, edits>>

(* createOrUpdateDeployment: an existing Deployment is left as it is *)
CreateDeployment(w, oks) ==
    /\ pc[w] = "create_deployment"
    /\ \E ok \in oks :
         IF ~CreateFailed(objects, DeploymentObj(app[w]), ok)
         THEN /\ objects' = Create(objects, NewObject(DeploymentObj(app[w]), app[w]))
              /\ workload' = DeploymentAfterCreate(objects, workload, app[w])
              /\ pc' = [pc EXCEPT ![w] = "create_service"]
              /\ Did(w, {"synthesizer", "create"})
              /\ UNCHANGED app
         ELSE /\ app' = [app EXCEPT ![w].status =
                            UpdateStatus(@, PhaseFailed,
                                "Deployment failed: failed to create deployment: " \o StoreErr)]
              /\ pc' = [pc EXCEPT ![w] = "persist_failed_deploy"]
              /\ Did(w, {"synthesizer", "create", "fail:create"})
              /\ UNCHANGED <<objects, workload>>
    /\ UNCHANGED <<spec, status, osenv, result, todo, start, edits, inSync>>

(* createOrUpdateService *)
CreateService(w, oks) ==
    /\ pc[w] = "create_service"
    /\ \E ok \in oks :
         IF ~CreateFailed(objects, ServiceObj(app[w]), ok)
         THEN /\ objects' = Create(objects, NewObject(ServiceObj(app[w]), app[w]))
              /\ Return(w, DeployedResult)
              /\ UNCHANGED <<app, did>>
         ELSE /\ app' = [app EXCEPT ![w].status =
                            UpdateStatus(@, PhaseFailed,
                                "Service failed: failed to create service: " \o StoreErr)]
              /\ pc' = [pc EXCEPT ![w] = "persist_failed_deploy"]
              /\ Did(w, {"fail:create"})
              /\ UNCHANGED <<objects, result, todo>>
    /\ UNCHANGED <<spec, status, workload, osenv, start, edits, inSync>>

(* The unchecked updateApplicationStatusOnly of phase Failed, lines 103, 111 *)
PersistFailedDeploy(w, oks) ==
    /\ pc[w] = "persist_failed_deploy"
    /\ \E ok \in oks :
         /\ status' = IF UpdateAccepted(w, ok) THEN app[w].status ELSE status
         /\ Did(w, IF UpdateAccepted(w, ok) THEN {} ELSE {"fail:failed-status"})
         /\ Updated(w, UpdateAccepted(w, ok))
    /\ Return(w, DeployFailedResult)
    /\ UNCHANGED <<spec, objects, workload, osenv, app, start, edits>>

(* Mutant: ready as soon as at least the resolved count is ready *)
CheckReadyFoundAtLeast(a, d) ==
    LET seen == [a EXCEPT !.status.readyReplicas = d.readyReplicas]
    IN  IF d.readyReplicas >= GetReplicas(a)
        THEN [ready |-> TRUE, app |-> seen]
        ELSE [ready |-> FALSE, app |-> seen]

(* checkApplicationReady on the Deployment read from the store *)
CheckReadyFound(a, d) ==
    LET seen == [a EXCEPT !.status.readyReplicas = d.readyReplicas]
    IN  IF d.readyReplicas = GetReplicas(a)
        THEN [ready |-> TRUE, app |-> seen]
        ELSE [ready |-> FALSE, app |-> seen]

(* Phase 3 of reconcileApplication: r.Get of the Deployment, lines 120-136 *)
CheckReady(w, oks) ==
    /\ pc[w] = "check_ready"
    /\ \E ok \in oks :
         IF ok /\ Exists(objects, DeploymentObj(app[w]))
         THEN LET c == CheckReadyFound(app[w], workload)
              IN  /\ IF c.ready
                     THEN /\ app' = [app EXCEPT ![w] =
                                       [c.app EXCEPT !.status =
                                           UpdateStatus(@, PhaseReady,
                                               "All replicas ready and serving traffic")]]
                          /\ pc' = [pc EXCEPT ![w] = "persist_ready"]
                          /\ UNCHANGED <<result, todo>>
                     ELSE /\ app' = [app EXCEPT ![w] = c.app]
                          /\ Return(w, StillDeployingResult)
                  /\ Did(w, {"readiness"})
         ELSE /\ Return(w, ReadinessErrorResult)
              /\ Did(w, {"fail:readiness"})
              /\ UNCHANGED app
    /\ UNCHANGED <<spec, status, objects, workload, osenv, start, edits, inSync>>

(* updateApplicationStatus of phase Ready, line 130 *)
PersistReady(w, oks) ==
    /\ pc[w] = "persist_ready"
    /\ \E ok \in oks :
         IF UpdateAccepted(w, ok)
         THEN /\ status' = app[w].status
              /\ Updated(w, TRUE)
              /\ Return(w, ReadyResult)
              /\ UNCHANGED did
         ELSE /\ Return(w, StatusFailedResult)
              /\ Updated(w, FALSE)
              /\ Did(w, {"fail:status"})
              /\ UNCHANGED status
    /\ UNCHANGED <<spec, objects, workload, osenv, app, start, edits>>

InFlight(w) == pc[w] \notin {"idle", "done"}

(* The pass is abandoned mid-flight (process shutdown, deadline): its       *)
(* in-memory record is lost, the store keeps what was written.              *)
Abandon(w) ==
    /\ InFlight(w)
    /\ pc' = [pc EXCEPT ![w] = "idle"]
    /\ app' = [app EXCEPT ![w] = NoApp]
    /\ todo' = [todo EXCEPT ![w] = << >>]
    /\ result' = [result EXCEPT ![w] = NoResult]
    /\ start' = [start EXCEPT ![w] = EmptyStatus]
    /\ did' = [did EXCEPT ![w] = {}]
    /\ inSync' = inSync \ {w}
    /\ UNCHANGED <<spec, status, objects, workload, osenv, edits>>

-----------------------------------------------------------------------------
(* The collaborators *)

(* The platform reports the Deployment's ready replicas *)
WorkloadStatus ==
    /\ workload.present
    /\ \E n \in 0..workload.replicas :
         /\ n # workload.readyReplicas
         /\ workload' = [workload EXCEPT !.readyReplicas = n]
    /\ UNCHANGED <<spec, status, objects, osenv, pc, app, todo, result, start, did, edits,
                   inSync>>

(* A user edits the desired-state record *)
EditSpec ==
    /\ edits < MaxEdits
    /\ \E s \in EditChoices(spec) : spec' = s
    /\ edits' = edits + 1
    /\ inSync' = {}
    /\ UNCHANGED <<status, objects, workload, osenv, pc, app, todo, result, start, did>>

-----------------------------------------------------------------------------
(* One store call of worker w; oks are the outcomes the store may give it *)
Step(w, oks) ==
    \/ Load(w, oks)
    \/ PersistValidation(w, oks)
    \/ PersistProvisioning(w, oks)
    \/ ProvisionCreate(w, oks)
    \/ PersistInfra(w, oks)
    \/ PersistFailedInfra(w, oks)
    \/ PersistDeploying(w, oks)
    \/ CreateDeployment(w, oks)
    \/ CreateService(w, oks)
    \/ PersistFailedDeploy(w, oks)
    \/ CheckReady(w, oks)
    \/ PersistReady(w, oks)

Next ==
    \/ \E w \in Workers : Step(w, BOOLEAN)
    \/ \E w \in Workers : Abandon(w)
    \/ WorkloadStatus
    \/ EditSpec

Spec == Init /\ [][Next]_vars

-----------------------------------------------------------------------------
(* The fault-free run: no store call fails, no pass is abandoned, the       *)
(* record is not edited, every returned requeue delay is followed by the    *)
(* next pass, and the platform brings the Deployment's replicas up.         *)

OsEnvs ==
    { NoEnv,
      [NoEnv EXCEPT !.AWS_ACCESS_KEY_ID = TRUE, !.AWS_SECRET_ACCESS_KEY = TRUE],
      [NoEnv EXCEPT !.KUBERNETES_SERVICE_HOST = TRUE, !.AWS_REGION = TRUE],
      [NoEnv EXCEPT !.KUBERNETES_SERVICE_HOST = TRUE] }

KindChoices == {Absent} \cup { Requested(e, "") : e \in Envs }

LiveSpecs ==
    { AppSpec(sc[1], sc[2], sc[3], Infra(e, pg, rd, s3)) :
        sc \in { <<"nginx:latest", 80, MaxReplicas>>, <<"nginx:latest", 0, 0>>,
                 <<"", 80, MaxReplicas>> },
        e \in Envs, pg \in KindChoices, rd \in KindChoices, s3 \in KindChoices }

InitLive ==
    /\ spec \in LiveSpecs
    /\ status = EmptyStatus
    /\ objects = {}
    /\ workload = NoWorkload
    /\ osenv \in OsEnvs
    /\ InitPass

(* The platform starts the Deployment's replicas one by one *)
WorkloadConverges ==
    /\ workload.present
    /\ workload.readyReplicas < workload.replicas
    /\ workload' = [workload EXCEPT !.readyReplicas = @ + 1]
    /\ UNCHANGED <<spec, status, objects, osenv, pc, app, todo, result, start, did, edits,
                   inSync>>

StepLive(w) ==
    \/ Load(w, {TRUE})
    \/ PersistValidation(w, {TRUE})
    \/ PersistProvisioning(w, {TRUE})
    \/ ProvisionCreate(w, {TRUE})
    \/ PersistInfra(w, {TRUE})
    \/ PersistDeploying(w, {TRUE})
    \/ CreateDeployment(w, {TRUE})
    \/ CreateService(w, {TRUE})
    \/ CheckReady(w, {TRUE})
    \/ PersistReady(w, {TRUE})

NextLive ==
    \/ \E w \in Workers : StepLive(w)
    \/ WorkloadConverges

SpecLive ==
    /\ InitLive
    /\ [][NextLive]_vars
    /\ WF_vars(\E w \in Workers : StepLive(w))
    /\ WF_vars(WorkloadConverges)

-----------------------------------------------------------------------------
(* Properties *)

Phases == {PhaseEmpty, PhasePending, PhaseProvisioningInfra, PhaseDeploying, PhaseReady, PhaseFailed}

PhaseRank(p) ==
    CASE p = PhaseEmpty -> 0
      [] p = PhasePending -> 1
      [] p = PhaseProvisioningInfra -> 2
      [] p = PhaseDeploying -> 3
      [] p = PhaseReady -> 4
      [] p = PhaseFailed -> 5

Stored == [name |-> AppName, spec |-> spec, status |-> status]

Loaded(w) == app[w] # NoApp

(* C1: phase monotonicity.  While the desired-state record has not been     *)
(* edited, every step leaves the persisted phase where it is or moves it    *)
(* forward in the order empty, Pending, ProvisioningInfrastructure,         *)
(* Deploying, Ready, or to Failed; Failed is left by no step.               *)
C1_PhaseMonotonic ==
    [][edits' = 0 =>
         /\ status'.phase \in Phases
         /\ PhaseRank(status'.phase) >= PhaseRank(status.phase)]_vars

(* A never-edited record that went the whole way to Ready *)
C1_Witness == edits = 0 /\ status.phase = PhaseReady /\ status.infrastructureReady

StepTags == {"provisioner", "synthesizer", "create"}

(* C2: Failed is sticky.  From a state whose persisted phase is Failed, a   *)
(* step that is not an edit of the record leaves the phase Failed, creates  *)
(* no object, and is no step of the provisioner or of the synthesizer.      *)
C2_FailedSticky ==
    [][(status.phase = PhaseFailed /\ spec' = spec) =>
         /\ status'.phase = PhaseFailed
         /\ objects' = objects
         /\ \A w \in Workers :
               /\ (did'[w] \ did[w]) \cap StepTags = {}
               /\ pc'[w] \notin {"persist_provisioning", "provision", "persist_infra",
                                 "persist_deploying", "create_deployment", "create_service"}]_vars

(* A pass that loaded a Failed record with a valid spec and has returned *)
C2_Witness ==
    \E w \in Workers :
        /\ pc[w] = "done" /\ Loaded(w)
        /\ start[w].phase = PhaseFailed /\ status.phase = PhaseFailed
        /\ ValidateSpec(app[w]) = ""
        /\ start[w].infrastructureReady
        /\ edits = 0

(* C3: end-to-end convergence.  Under SpecLive (no store call fails, every *)
(* requeue is followed by a pass, the platform brings the replicas up) a    *)
(* valid record that requests a database and sets the application-wide      *)
(* environment to local eventually has persisted phase Ready, a ready count *)
(* equal to the resolved replica count, database endpoint                   *)
(* "<record-name>-postgres:5432" and database placement local.              *)
C3_Case ==
    /\ ValidateSpec(Stored) = ""
    /\ spec.infrastructure.postgresql.present
    /\ spec.infrastructure.postgresql.environment = EnvUnset
    /\ spec.infrastructure.environment = EnvironmentLocal

C3_Converged ==
    /\ status.phase = PhaseReady
    /\ status.readyReplicas = GetReplicas(Stored)
    /\ status.databaseEndpoint = AppName \o "-postgres:5432"
    /\ status.databaseEnvironment = EnvironmentLocal

C3_EndToEndConvergence == C3_Case ~> C3_Converged

(* The scenario's record, converged, with all its replicas counted *)
C3_Witness ==
    /\ C3_Case /\ C3_Converged
    /\ spec.replicas = MaxReplicas
    /\ status.readyReplicas = MaxReplicas
    /\ \A key \in {DeploymentObj(Stored), ServiceObj(Stored),
                     Obj("StatefulSet", AppName \o "-postgres")} :
          NewObject(key, Stored) \in objects

RequestedKinds(s) ==
    { k \in {"postgresql", "redis", "s3"} : s.infrastructure[k].present }

(* C4: in every persisted status of a record that requests at least one    *)
(* kind and was never edited, infrastructureReady is true iff every         *)
(* requested kind (database, cache, object store) has a non-empty endpoint  *)
(* in that status, for local and for cloud placement.                       *)
Endpoint(st, k) ==
    CASE k = "postgresql" -> st.databaseEndpoint
      [] k = "redis" -> st.redisEndpoint
      [] k = "s3" -> st.s3Endpoint

C4_InfraReadyIffEndpoints ==
    (edits = 0 /\ RequestedKinds(spec) # {}) =>
        (status.infrastructureReady <=>
            \A k \in RequestedKinds(spec) : Endpoint(status, k) # "")

(* C5: a pass that finds the record in ProvisioningInfrastructure with      *)
(* infrastructureReady still false (an earlier pass was abandoned after     *)
(* persisting the phase) runs the infrastructure provisioner again.         *)
C5_ProvisioningResumed ==
    \A w \in Workers :
        (/\ pc[w] = "done" /\ Loaded(w)
         /\ ValidateSpec(app[w]) = ""
         /\ start[w].phase = PhaseProvisioningInfra
         /\ ~start[w].infrastructureReady)
        => "provisioner" \in did[w]

(* C6: a pass that finds the record in Deploying (an earlier pass was       *)
(* abandoned after persisting the phase, before both objects existed)       *)
(* re-enters the creation step, so that at its end the process-group and    *)
(* the network-endpoint object both exist.                                  *)
C6_DeploymentResumed ==
    \A w \in Workers :
        (/\ pc[w] = "done" /\ Loaded(w)
         /\ ValidateSpec(app[w]) = ""
         /\ start[w].phase = PhaseDeploying
         /\ result[w].err = "")
        => \/ "synthesizer" \in did[w]
           \/ /\ Exists(objects, DeploymentObj(app[w]))
              /\ Exists(objects, ServiceObj(app[w]))

(* C7 as claimed: whatever store call fails, a pass that returns returns a  *)
(* nil error.                                                               *)
C7_NoErrorEscapes ==
    \A w \in Workers : pc[w] = "done" => result[w].err = ""

(* C7 amended: a failed create of the provisioner or of the synthesizer, a  *)
(* failed status update at the end of the provisioner, a failed readiness   *)
(* query and a failed persist of a Failed status that follows one of them   *)
(* never escape: the pass returns a nil error and a requeue delay (5        *)
(* minutes, 2 minutes, 30 seconds).  A failed load of the record and a      *)
(* failed persist of the validation failure, of ProvisioningInfrastructure, *)
(* of Deploying or of Ready are returned as the error, with no requeue      *)
(* delay; a pass returns an error in no other case.                         *)
Escaping == {"fail:get", "fail:status"}

Swallowed == {"fail:create", "fail:infra-status", "fail:failed-status", "fail:readiness"}

C7_OnlyLoadAndPersistErrorsEscape ==
    \A w \in Workers :
        pc[w] = "done" =>
            /\ result[w].err # "" <=> did[w] \cap Escaping # {}
            /\ result[w].err # "" => result[w].requeueAfter = RequeueNone
            /\ (did[w] \cap Swallowed # {} /\ did[w] \cap Escaping = {}) =>
                  /\ result[w].err = ""
                  /\ result[w].requeueAfter \in
                        {RequeueProvisionFailed, RequeueDeployFailed, RequeueReadinessError}

(* A pass returned the error of its failed persist of Deploying *)
C7_Witness ==
    \E w \in Workers :
        /\ pc[w] = "done" /\ Loaded(w)
        /\ "fail:status" \in did[w]
        /\ result[w].err = StatusUpdateErr
        /\ start[w].phase = PhaseProvisioningInfra
        /\ app[w].status.phase = PhaseDeploying

(* C8: a pass that loaded a record with an invalid spec, whatever the phase *)
(* it found, sets phase Failed with the message "Validation failed: <the    *)
(* validation error>", persists that status (the persisted status is the    *)
(* pass's one unless the store refused the update), returns no requeue      *)
(* delay, and runs no provisioner, synthesizer or readiness step and        *)
(* creates no object.                                                       *)
C8_ValidationTerminal ==
    \A w \in Workers :
        (Loaded(w) /\ pc[w] # "idle" /\ "fail:get" \notin did[w] /\ ValidateSpec(app[w]) # "") =>
            /\ app[w].status.phase = PhaseFailed
            /\ app[w].status.message = "Validation failed: " \o ValidateSpec(app[w])
            /\ pc[w] \in {"persist_validation", "done"}
            /\ did[w] \cap {"provisioner", "synthesizer", "create", "readiness"} = {}
            /\ pc[w] = "done" =>
                  /\ result[w].requeueAfter = RequeueNone
                  /\ "fail:status" \notin did[w] =>
                        /\ result[w].err = ""
                        /\ status = app[w].status

(* An edit made a Ready record invalid; the next pass left it Failed *)
C8_Witness ==
    \E w \in Workers :
        /\ pc[w] = "done" /\ Loaded(w)
        /\ ValidateSpec(app[w]) # ""
        /\ start[w].phase = PhaseReady
        /\ status.phase = PhaseFailed
        /\ status.message = "Validation failed: " \o ValidateSpec(app[w])
        /\ result[w] = ValidationFailedResult

PlacementOf(st, k) ==
    CASE k = "postgresql" -> st.databaseEnvironment
      [] k = "redis" -> st.redisEnvironment
      [] k = "s3" -> st.s3Environment

Decides(e) == e \in {EnvironmentLocal, EnvironmentAWS}

(* C9: once the infrastructure is provisioned, the placement of every       *)
(* requested kind is its resource-level setting when that is local or       *)
(* cloud, and otherwise (unset or auto) the application-wide setting when   *)
(* that is local or cloud.                                                  *)
C9_ResolutionPrecedence ==
    status.infrastructureReady =>
        \A k \in RequestedKinds(spec) :
            LET res == spec.infrastructure[k].environment
                appEnv == spec.infrastructure.environment
            IN  /\ Decides(res) => PlacementOf(status, k) = res
                /\ (~Decides(res) /\ Decides(appEnv)) => PlacementOf(status, k) = appEnv

(* C10: once the infrastructure is provisioned, a requested kind whose      *)
(* resource-level and application-wide settings are both unset or auto is   *)
(* placed local when the ambient environment is local and cloud when it is  *)
(* cloud.                                                                   *)
C10_AmbientFallback ==
    status.infrastructureReady =>
        \A k \in RequestedKinds(spec) :
            (~Decides(spec.infrastructure[k].environment)
                /\ ~Decides(spec.infrastructure.environment)) =>
                PlacementOf(status, k) =
                    IF ControllerIsLocalEnvironment(osenv)
                    THEN EnvironmentLocal ELSE EnvironmentAWS

(* C11: a pass that finds the record in Deploying and reads a ready count   *)
(* that differs from the resolved replica count keeps the phase Deploying,  *)
(* persists the observed ready count and returns a 15-second requeue delay. *)
C11_ReadinessGating ==
    \A w \in Workers :
        (/\ pc[w] = "done" /\ Loaded(w)
         /\ start[w].phase = PhaseDeploying
         /\ "readiness" \in did[w]
         /\ app[w].status.readyReplicas # GetReplicas(app[w])
         /\ w \in inSync)
        => /\ status.phase = PhaseDeploying
           /\ result[w] = StillDeployingResult
           /\ status.readyReplicas = app[w].status.readyReplicas

(* C12: a pass on a record whose persisted phase is Ready and whose spec is *)
(* valid is the load alone: it changes no object and not the persisted      *)
(* status, makes no further store call, and returns a 5-minute requeue      *)
(* delay; what it leaves behind is a function of the stored record, so a    *)
(* second such pass changes nothing at all.                                 *)
C12_ReadyIdempotent ==
    [][(/\ status.phase = PhaseReady
        /\ ValidateSpec(Stored) = ""
        /\ spec' = spec /\ workload' = workload
        /\ \A w \in Workers : pc[w] \in {"idle", "done"})
       => /\ status' = status
          /\ objects' = objects
          /\ \A w \in Workers :
                (pc'[w] # "idle" /\ "fail:get" \notin did'[w]) =>
                    /\ pc'[w] = "done"
                    /\ result'[w] = HealthyResult
                    /\ did'[w] = {}
                    /\ app'[w] = Stored
                    /\ start'[w] = status]_vars

(* A pass found the record Ready and returned; the next one can start *)
C12_Witness ==
    \E w \in Workers :
        /\ pc[w] = "done" /\ result[w] = HealthyResult
        /\ app[w] = Stored /\ start[w] = status
        /\ status.phase = PhaseReady
        /\ status.readyReplicas = MaxReplicas
        /\ ENABLED Load(w, {TRUE})

(* The key of the object the pass is about to create *)
PendingCreate(w) ==
    CASE pc[w] = "provision" -> Head(todo[w]).obj
      [] pc[w] = "create_deployment" -> DeploymentObj(app[w])
      [] pc[w] = "create_service" -> ServiceObj(app[w])

AtCreate(w) == pc[w] \in {"provision", "create_deployment", "create_service"}

AfterCreate == {"provision", "persist_infra", "create_service", "done"}

(* The create call of worker w, answered by the store *)
CreateAnswered(w) ==
    \/ ProvisionCreate(w, {TRUE})
    \/ CreateDeployment(w, {TRUE})
    \/ CreateService(w, {TRUE})

(* C13: when the object a pass is about to create (volume claim, stateful   *)
(* workload, infrastructure deployment or endpoint, process group, network  *)
(* endpoint) already exists, the create call that the store answers lets    *)
(* the pass continue with its next step, does not set phase Failed, and     *)
(* leaves the existing object, every other object and the persisted status  *)
(* as they are; no step of a pass removes or changes an existing object.    *)
C13_CreateIfAbsent ==
    /\ [](\A w \in Workers :
            (AtCreate(w) /\ Exists(objects, PendingCreate(w))) =>
                ENABLED (/\ CreateAnswered(w)
                         /\ pc'[w] \in AfterCreate
                         /\ app'[w].status.phase # PhaseFailed
                         /\ "fail:create" \notin did'[w]))
    /\ [][/\ objects \subseteq objects'
          /\ \A w \in Workers :
                (/\ AtCreate(w) /\ Exists(objects, PendingCreate(w))
                 /\ pc'[w] # "idle" /\ <<pc[w], todo[w]>>' # <<pc[w], todo[w]>>
                 /\ "fail:create" \notin did'[w]) =>
                    /\ objects' = objects
                    /\ workload' = workload
                    /\ status' = status
                    /\ pc'[w] \in AfterCreate
                    /\ app'[w].status.phase # PhaseFailed]_vars

(* The pass found a Deployment of its name that someone else had created,   *)
(* went on and created the Service                                          *)
C13_Witness ==
    \E w \in Workers :
        /\ pc[w] = "done" /\ result[w] = DeployedResult
        /\ NewObject(DeploymentObj(app[w]), LeftOverBy) \in objects
        /\ NewObject(ServiceObj(app[w]), app[w]) \in objects
        /\ workload = LeftOverWorkload
        /\ status.phase = PhaseDeploying

Kinds == {"postgresql", "redis", "s3"}

RECURSIVE CreateKeys(_)
CreateKeys(steps) ==
    IF steps = << >> THEN {}
    ELSE (IF Head(steps).t = "create" THEN {Head(steps).obj} ELSE {}) \cup CreateKeys(Tail(steps))

(* The keys of the objects that make up kind k of record a in local placement *)
LocalKeys(a, k) ==
    CreateKeys(CASE k = "postgresql" -> provisionLocalPostgreSQL(a)
                 [] k = "redis" -> provisionLocalRedis(a)
                 [] k = "s3" -> provisionLocalS3(a))

IsLocalKind(a, k) ==
    CASE k = "postgresql" -> IsLocalDatabase(a)
      [] k = "redis" -> IsLocalRedis(a)
      [] k = "s3" -> IsLocalS3(a)

(* C15: once the persisted status carries a cloud placement for a kind, no  *)
(* step, whatever the record's environment settings are edited to, changes  *)
(* that persisted placement or creates one of the kind's local objects.     *)
C15_PlacementSticky ==
    [][\A k \in Kinds :
          PlacementOf(status, k) = EnvironmentAWS =>
              /\ PlacementOf(status', k) = EnvironmentAWS
              /\ \A key \in LocalKeys(Stored, k) :
                    Exists(objects', key) => Exists(objects, key)]_vars

(* A kind placed in the cloud, the record edited so that the kind now       *)
(* resolves local, and a pass on the edited record has returned             *)
C15_Witness ==
    \E w \in Workers : \E k \in Kinds :
        /\ PlacementOf(status, k) = EnvironmentAWS
        /\ spec.infrastructure[k].present /\ IsLocalKind(Stored, k)
        /\ edits > 0
        /\ pc[w] = "done" /\ app[w].spec = spec /\ result[w] = HealthyResult
        /\ \A key \in LocalKeys(Stored, k) : ~Exists(objects, key)

(* C16: every object a pass has created for the record carries an owner     *)
(* reference to the record.                                                 *)
C16_OwnershipMarking ==
    \A o \in objects : o.app = AppName => AppName \in o.ownerReferences

-----------------------------------------------------------------------------
(* Two records in one namespace: next to the record of the model a second   *)
(* record is reconciled by passes of the same controller, which create that *)
(* record's objects in the same store.                                      *)

OtherNames == {"simple-nginx-redis", "orders"}

OtherRecord(n) ==
    [name |-> n,
     spec |-> AppSpec("nginx:latest", 80, 1,
                      Infra(EnvironmentLocal, Absent, Absent, Absent)),
     status |-> EmptyStatus]

(* The keys of all objects the passes of record a create *)
KeysOf(a) ==
    CreateKeys(provisionInfrastructure(a)) \cup {DeploymentObj(a), ServiceObj(a)}

(* One r.Create of a pass of the other record *)
OtherReconciles ==
    /\ \E n \in OtherNames : \E key \in KeysOf(OtherRecord(n)) :
         /\ ~Exists(objects, key)
         /\ objects' = Create(objects, NewObject(key, OtherRecord(n)))
    /\ UNCHANGED <<spec, status, workload, osenv, pc, app, todo, result, start, did, edits,
                   inSync>>

SharedSpecs ==
    { AppSpec(image, 80, MaxReplicas, Infra(e, pg, rd, s3)) :
        image \in Images,
        e \in {EnvironmentLocal, EnvironmentAWS},
        pg \in {Absent, Requested(EnvUnset, "")},
        rd \in {Absent, Requested(EnvUnset, ""), Requested(EnvironmentLocal, "")},
        s3 \in {Absent, Requested(EnvUnset, "")} }

InitShared ==
    /\ spec \in SharedSpecs
    /\ status = EmptyStatus
    /\ objects = {}
    /\ workload = NoWorkload
    /\ osenv = NoEnv
    /\ InitPass

NextShared ==
    \/ \E w \in Workers : StepLive(w)
    \/ WorkloadConverges
    \/ OtherReconciles

SpecShared == InitShared /\ [][NextShared]_vars

(* C17: the objects behind what the record's persisted status reports (the  *)
(* local objects of a kind placed local once the infrastructure is ready,   *)
(* the Deployment and the Service once the record is Ready) are objects     *)
(* that the record's own passes created, never another record's.            *)
C17_RecordIsolation ==
    \A o \in objects :
        /\ status.infrastructureReady =>
              \A k \in RequestedKinds(spec) :
                  (PlacementOf(status, k) = EnvironmentLocal
                     /\ KeyOf(o) \in LocalKeys(Stored, k)) => o.app = AppName
        /\ (status.phase = PhaseReady
               /\ KeyOf(o) \in {DeploymentObj(Stored), ServiceObj(Stored)}) => o.app = AppName

-----------------------------------------------------------------------------
(* Two passes on the same record at once: two operator processes run        *)
(* without leader election (main.go: leader-elect defaults to false), each  *)
(* with its own in-memory copy of the record.                               *)

Workers2 == {1, 2}

InitConc ==
    /\ spec \in SharedSpecs
    /\ status = EmptyStatus
    /\ objects = {}
    /\ workload = NoWorkload
    /\ osenv = NoEnv
    /\ InitPassOf(Workers2)

NextConc ==
    \/ \E w \in Workers2 : Step(w, BOOLEAN)
    \/ \E w \in Workers2 : Abandon(w)
    \/ WorkloadStatus

SpecConc == InitConc /\ [][NextConc]_vars

(* C18: whatever the interleaving of two passes that run on the same record *)
(* at once, no step takes the persisted phase back to an earlier one, turns *)
(* a persisted infrastructureReady off, or replaces or clears a persisted   *)
(* endpoint, placement or bucket name: the store refuses the update of a    *)
(* copy older than the record.                                              *)
C18_NoLostUpdate ==
    [][/\ PhaseRank(status'.phase) >= PhaseRank(status.phase)
       /\ status.infrastructureReady => status'.infrastructureReady
       /\ status.s3BucketName # "" => status'.s3BucketName = status.s3BucketName
       /\ \A k \in Kinds :
             /\ Endpoint(status, k) # "" => Endpoint(status', k) = Endpoint(status, k)
             /\ PlacementOf(status, k) # EnvUnset =>
                   PlacementOf(status', k) = PlacementOf(status, k)]_vars

(* A pass that loaded the empty status is about to persist its phase while  *)
(* the other pass has already persisted the provisioned infrastructure      *)
C18_Witness ==
    \E w \in Workers2 : \E v \in Workers2 \ {w} :
        /\ pc[w] = "persist_provisioning" /\ w \notin inSync
        /\ start[w].phase = PhaseEmpty
        /\ pc[v] = "done" /\ result[v] = ProvisionedResult
        /\ status.infrastructureReady /\ status.redisEndpoint # ""

-----------------------------------------------------------------------------
(* C19: no update path. Once the Deployment and the Service of the          *)
(* application exist, no step changes them: every object of the store stays *)
(* exactly as it was created (none removed, none replaced under its key),   *)
(* and the Deployment keeps the image, replicas and port it was created     *)
(* with, whatever the record says after an edit; only the platform moves    *)
(* its ready count.                                                         *)
C19_NoUpdatePath ==
    [][ /\ objects \subseteq objects'
        /\ \A o \in objects' : Exists(objects, KeyOf(o)) => o \in objects
        /\ Exists(objects, DeploymentObj(Stored)) =>
             /\ workload'.present
             /\ workload'.image = workload.image
             /\ workload'.replicas = workload.replicas
             /\ workload'.port = workload.port ]_vars

(* The record was edited after its Deployment and Service were created, a   *)
(* later pass on the edited record has finished, and the Deployment still   *)
(* runs what the record said before the edit.                               *)
C19_Witness ==
    /\ edits > 0
    /\ NewObject(DeploymentObj(Stored), Stored) \in objects
    /\ NewObject(ServiceObj(Stored), Stored) \in objects
    /\ \/ workload.image # spec.image
       \/ workload.replicas # GetReplicas(Stored)
    /\ \E w \in Workers :
         /\ pc[w] = "done"
         /\ app[w].spec = spec
         /\ start[w].phase \in {PhaseDeploying, PhaseReady}
         /\ "fail:get" \notin did[w]

-----------------------------------------------------------------------------
(* C20: provisioning success is persisted. A pass that started with phase   *)
(* empty or Pending, ran the provisioner and met no failure (no store call  *)
(* refused, no create failed) ends with the persisted status in phase       *)
(* ProvisioningInfrastructure with infrastructureReady set, returns the     *)
(* 10-second requeue without error, and leaves a record on which the next   *)
(* pass takes the deployment branch.                                        *)
FailureTags ==
    {"fail:get", "fail:status", "fail:create", "fail:infra-status",
     "fail:failed-status", "fail:readiness"}

ProvisionedWithoutFailure(w) ==
    /\ pc[w] = "done"
    /\ start[w].phase \in {PhaseEmpty, PhasePending}
    /\ "provisioner" \in did[w]
    /\ did[w] \cap FailureTags = {}

C20_ProvisioningPersisted ==
    \A w \in Workers :
        ProvisionedWithoutFailure(w) =>
            /\ status.phase = PhaseProvisioningInfra
            /\ status.infrastructureReady
            /\ status = app[w].status
            /\ result[w] = Result(RequeueAfterProvision, "")
            /\ RequeueAfterProvision = 10
            /\ Branch(status) = "deploy"

(* Such a pass has finished after creating at least one object, and its     *)
(* endpoints are in the persisted status.                                   *)
C20_Witness ==
    \E w \in Workers :
        /\ ProvisionedWithoutFailure(w)
        /\ "create" \in did[w]
        /\ status.infrastructureReady
        /\ status.redisEndpoint # ""

-----------------------------------------------------------------------------
(* C21: persist before provisioning. While the persisted phase is empty or  *)
(* Pending no object of the record exists in the store; the provisioner     *)
(* starts only in the step that persists phase ProvisioningInfrastructure;  *)
(* and a pass whose first persist was refused ran no provisioner step and   *)
(* created nothing.                                                         *)
OwnObjects == { o \in objects : o.app = AppName }

C21_PersistBeforeProvisioning ==
    /\ [](status.phase \in {PhaseEmpty, PhasePending} => OwnObjects = {})
    /\ [](\A w \in Workers :
            (/\ start[w].phase \in {PhaseEmpty, PhasePending}
             /\ "fail:status" \in did[w])
            => /\ pc[w] = "done"
               /\ did[w] \cap StepTags = {}
               /\ result[w] = StatusFailedResult)
    /\ [][\A w \in Workers :
            ("provisioner" \notin did[w] /\ "provisioner" \in did'[w])
            => /\ status.phase \in {PhaseEmpty, PhasePending}
               /\ status'.phase = PhaseProvisioningInfra
               /\ objects' = objects]_vars

(* A pass that started from the empty phase is in the middle of the         *)
(* provisioner: it has created an object of the record and has more to do.  *)
C21_Witness ==
    \E w \in Workers :
        /\ pc[w] = "provision"
        /\ start[w].phase = PhaseEmpty
        /\ "create" \in did[w]
        /\ OwnObjects # {}
        /\ status.phase = PhaseProvisioningInfra
        /\ ~status.infrastructureReady

-----------------------------------------------------------------------------
(* C22: provisioner error handling. A pass that started with phase empty or *)
(* Pending and in which a provisioner step returned an error (a create      *)
(* failed, or the status update at the end of the provisioner was refused)  *)
(* ends with the persisted phase Failed and the persisted message carrying  *)
(* the error, and returns the 5-minute requeue with no error.               *)
ProvisionerFailed(w) ==
    /\ pc[w] = "done"
    /\ start[w].phase \in {PhaseEmpty, PhasePending}
    /\ "provisioner" \in did[w]
    /\ did[w] \cap {"fail:create", "fail:infra-status"} # {}

C22_ProvisionerErrorPersisted ==
    \A w \in Workers :
        ProvisionerFailed(w) =>
            /\ result[w] = Result(RequeueProvisionFailed, "")
            /\ app[w].status.phase = PhaseFailed
            /\ status.phase = PhaseFailed
            /\ status.message = app[w].status.message

-----------------------------------------------------------------------------
(* C23: deployment branch. A pass that loaded phase                         *)
(* ProvisioningInfrastructure with infrastructureReady set creates nothing  *)
(* before its persist of phase Deploying was accepted (and nothing at all   *)
(* when it was refused), creates the Deployment before it turns to the      *)
(* Service, and, when no create failed, ends with the 15-second requeue, no *)
(* error, the persisted phase Deploying and both objects in the store.      *)
InDeployBranch(w) ==
    /\ pc[w] # "idle"
    /\ start[w].phase = PhaseProvisioningInfra
    /\ start[w].infrastructureReady
    /\ ValidateSpec(app[w]) = ""

C23_DeploymentBranch ==
    /\ [](\A w \in Workers :
            InDeployBranch(w) =>
              /\ pc[w] \in {"create_deployment", "create_service"}
                   => status.phase = PhaseDeploying
              /\ "fail:status" \in did[w] => did[w] \cap StepTags = {}
              /\ pc[w] = "create_service" => Exists(objects, DeploymentObj(app[w]))
              /\ (pc[w] = "done" /\ did[w] \cap FailureTags = {}) =>
                    /\ result[w] = Result(RequeueAfterDeploy, "")
                    /\ RequeueAfterDeploy = 15
                    /\ status.phase = PhaseDeploying
                    /\ Exists(objects, DeploymentObj(app[w]))
                    /\ Exists(objects, ServiceObj(app[w]))
                    /\ workload.present)
    /\ [][\A w \in Workers :
            (InDeployBranch(w) /\ objects' # objects) =>
               /\ status.phase = PhaseDeploying
               /\ status' = status
               /\ \/ /\ pc[w] = "create_deployment"
                     /\ objects' = objects \cup {NewObject(DeploymentObj(app[w]), app[w])}
                  \/ /\ pc[w] = "create_service"
                     /\ objects' = objects \cup {NewObject(ServiceObj(app[w]), app[w])}]_vars

(* The pass has created both objects and returned *)
C23_Witness ==
    \E w \in Workers :
        /\ InDeployBranch(w)
        /\ pc[w] = "done"
        /\ result[w] = DeployedResult
        /\ NewObject(DeploymentObj(app[w]), app[w]) \in objects
        /\ NewObject(ServiceObj(app[w]), app[w]) \in objects
        /\ status.phase = PhaseDeploying

-----------------------------------------------------------------------------
(* C24: synthesis error handling. A pass of the deployment branch in which  *)
(* the create of the Deployment or of the Service failed with an error      *)
(* other than already-exists ends with the persisted phase Failed and the   *)
(* 2-minute requeue without error; when it was the Deployment's create that *)
(* failed, the Service was not created by the pass.                         *)
DeploymentFailedMessage == "Deployment failed: failed to create deployment: " \o StoreErr

SynthesisFailed(w) ==
    /\ InDeployBranch(w)
    /\ pc[w] = "done"
    /\ "fail:create" \in did[w]

C24_SynthesisErrorPersisted ==
    \A w \in Workers :
        SynthesisFailed(w) =>
            /\ result[w] = Result(RequeueDeployFailed, "")
            /\ RequeueDeployFailed = 120
            /\ app[w].status.phase = PhaseFailed
            /\ app[w].status.message = DeploymentFailedMessage
                 => NewObject(ServiceObj(app[w]), app[w]) \notin objects
            /\ status.phase = PhaseFailed
            /\ status.message = app[w].status.message

-----------------------------------------------------------------------------
(* C25: transition to Ready. The persisted phase becomes Ready only from    *)
(* Deploying and only by the persist of a pass that loaded phase Deploying, *)
(* read the Deployment successfully and found its ready count equal to the  *)
(* resolved replicas of the record; that step persists phase Ready together *)
(* with that count, and the pass returns with no requeue delay and no error.*)
C25_TransitionToReady ==
    [][(status.phase # PhaseReady /\ status'.phase = PhaseReady) =>
          /\ status.phase = PhaseDeploying
          /\ \E w \in Workers :
               /\ pc[w] = "persist_ready"
               /\ start[w].phase = PhaseDeploying
               /\ "readiness" \in did[w]
               /\ did[w] \cap FailureTags = {}
               /\ Exists(objects, DeploymentObj(app[w]))
               /\ app[w].status.readyReplicas = GetReplicas(app[w])
               /\ GetReplicas(app[w]) = GetReplicas(Stored)
               /\ status' = app[w].status
               /\ status'.readyReplicas = GetReplicas(Stored)
               /\ pc'[w] = "done"
               /\ result'[w] = Result(RequeueNone, "")]_vars

(* The pass that found every replica ready has persisted Ready and returned *)
C25_Witness ==
    \E w \in Workers :
        /\ pc[w] = "done"
        /\ start[w].phase = PhaseDeploying
        /\ "readiness" \in did[w]
        /\ result[w] = ReadyResult
        /\ status.phase = PhaseReady
        /\ status.readyReplicas = MaxReplicas

-----------------------------------------------------------------------------
(* C26: a failed readiness query is transient. When the read of the         *)
(* Deployment fails in a pass that loaded phase Deploying, the step changes *)
(* no field of the persisted status, no object and no Deployment content,   *)
(* and the pass returns at once with the 30-second requeue and no error;    *)
(* the finished pass has made no other store call and the persisted status  *)
(* is the one it loaded.                                                    *)
C26_ReadinessFailureTransient ==
    /\ [][\A w \in Workers :
            ("fail:readiness" \notin did[w] /\ "fail:readiness" \in did'[w]) =>
               /\ pc[w] = "check_ready"
               /\ start[w].phase = PhaseDeploying
               /\ status' = status
               /\ objects' = objects
               /\ workload' = workload
               /\ pc'[w] = "done"
               /\ result'[w] = Result(RequeueReadinessError, "")
               /\ RequeueReadinessError = 30]_vars
    /\ [](\A w \in Workers :
            "fail:readiness" \in did[w] =>
               /\ pc[w] = "done"
               /\ did[w] = {"fail:readiness"}
               /\ status = start[w]
               /\ status.phase = PhaseDeploying)

(* The Deployment could not be read: the pass is done and the record is     *)
(* still Deploying                                                          *)
C26_Witness ==
    \E w \in Workers :
        /\ pc[w] = "done"
        /\ "fail:readiness" \in did[w]
        /\ result[w] = ReadinessErrorResult
        /\ status.phase = PhaseDeploying
        /\ Exists(objects, DeploymentObj(Stored))

-----------------------------------------------------------------------------
(* C27: the unrecognized-phase fallback is never taken. From a new record   *)
(* with empty status, whose status only the controller writes, no sequence  *)
(* of passes, store failures and abandoned passes leads to a pass that      *)
(* falls through to the 1-minute requeue of the last branch.                *)
FellThrough(w) ==
    /\ pc[w] = "done"
    /\ "fail:get" \notin did[w]
    /\ ValidateSpec(app[w]) = ""
    /\ Branch(start[w]) = "unknown"
    /\ result[w] = Result(RequeueUnknownPhase, "")

C27_FallbackNeverTaken == \A w \in Workers : ~FellThrough(w)

-----------------------------------------------------------------------------
(* Requests for records that are not in the store: the trigger mechanism    *)
(* delivers the name of a record after its deletion.                        *)

DeletedNames == {"deleted-app"}

(* The store holds the one record AppName *)
RecordExists(name) == name = AppName

(* Mutant: a record that is not found is reported as a failed load *)
NotFoundReturned == Result(RequeueNone, StoreErr)

(* Reconcile lines 41-44: errors.IsNotFound *)
NotFoundResult == Result(RequeueNone, "")

(* Reconcile of a request whose r.Get answers not-found *)
LoadNotFound(w) ==
    /\ pc[w] \in {"idle", "done"}
    /\ \E name \in DeletedNames :
         /\ ~RecordExists(name)
         /\ app' = [app EXCEPT ![w] = [NoApp EXCEPT !.name = name]]
    /\ start' = [start EXCEPT ![w] = EmptyStatus]
    /\ pc' = [pc EXCEPT ![w] = "done"]
    /\ result' = [result EXCEPT ![w] = NotFoundResult]
    /\ did' = [did EXCEPT ![w] = {"notfound"}]
    /\ todo' = [todo EXCEPT ![w] = << >>]
    /\ inSync' = inSync \ {w}
    /\ UNCHANGED <<spec, status, objects, workload, osenv, edits>>

NextDeleted ==
    \/ Next
    \/ \E w \in Workers : LoadNotFound(w)

SpecDeleted == Init /\ [][NextDeleted]_vars

(* C28: a deleted record is a no-op. When the record named by the request   *)
(* is absent from the store, reconcile leaves the stored status, the stored *)
(* spec, every object and the Deployment's content as they are, makes no    *)
(* further store call, and returns no requeue delay and no error.           *)
C28_DeletedRecordNoOp ==
    /\ [][\A w \in Workers :
            (app'[w].name \in DeletedNames /\ app'[w] # app[w]) =>
               /\ status' = status
               /\ spec' = spec
               /\ objects' = objects
               /\ workload' = workload
               /\ pc'[w] = "done"
               /\ result'[w] = Result(RequeueNone, "")]_vars
    /\ [](\A w \in Workers :
            app[w].name \in DeletedNames =>
               /\ pc[w] = "done"
               /\ did[w] = {"notfound"}
               /\ todo[w] = << >>
               /\ w \notin inSync)

(* The request named a deleted record while the stored record is half-way:  *)
(* the pass is done and the stored record is untouched                      *)
C28_Witness ==
    \E w \in Workers :
        /\ app[w].name \in DeletedNames
        /\ pc[w] = "done"
        /\ result[w] = NotFoundResult
        /\ status.phase = PhaseDeploying
        /\ OwnObjects # {}

-----------------------------------------------------------------------------
(* Validation of new records over the values around the limits of           *)
(* ValidateSpec: the first pass on each record, up to its first persist.    *)

ValidationImages == {"", "nginx:latest"}
ValidationPorts == {-1, 0, 1, 80, 65535, 65536, 70000}
ValidationReplicas == {-1, 0, 1, 3}

ValidationSpecs ==
    { AppSpec(i, p, r, Infra(EnvUnset, Absent, Absent, Absent)) :
        i \in ValidationImages, p \in ValidationPorts, r \in ValidationReplicas }

InitValidate ==
    /\ spec \in ValidationSpecs
    /\ status = EmptyStatus
    /\ objects = {}
    /\ workload = NoWorkload
    /\ osenv = NoEnv
    /\ InitPass

NextValidate ==
    \E w \in Workers :
        \/ Load(w, {TRUE})
        \/ PersistValidation(w, BOOLEAN)

SpecValidate == InitValidate /\ [][NextValidate]_vars

(* C29: validation predicate. The pass rejects the record it loaded (phase  *)
(* Failed, message "Validation failed: ...") exactly when the image is      *)
(* empty, or the port is neither 0 nor within 1..65535, or replicas is      *)
(* negative; an empty image is rejected with the message naming the image,  *)
(* port 70000 and replicas -1 are rejected, and image "nginx:latest" with   *)
(* port 80 and replicas 3 passes and goes on to provisioning.               *)
PassesValidation(s) ==
    /\ s.image # ""
    /\ s.port = 0 \/ (s.port >= 1 /\ s.port <= 65535)
    /\ s.replicas >= 0

RejectedByPass(w) ==
    /\ app[w].status.phase = PhaseFailed
    /\ app[w].status.message = "Validation failed: " \o ValidateSpec(app[w])
    /\ "provisioner" \notin did[w]

C29_ValidationPredicate ==
    \A w \in Workers :
        (pc[w] # "idle" /\ "fail:get" \notin did[w]) =>
            LET s == app[w].spec
            IN  /\ s = spec
                /\ RejectedByPass(w) <=> ~PassesValidation(s)
                /\ ~RejectedByPass(w) =>
                     /\ pc[w] = "persist_provisioning"
                     /\ app[w].status.phase = PhaseProvisioningInfra
                /\ s.image = "" =>
                     /\ RejectedByPass(w)
                     /\ app[w].status.message = "Validation failed: image is required"
                /\ s.port = 70000 => RejectedByPass(w)
                /\ s.replicas = -1 => RejectedByPass(w)
                /\ (s.image = "nginx:latest" /\ s.port = 80 /\ s.replicas = 3)
                     => ~RejectedByPass(w)

(* The record with image "nginx:latest", port 80 and replicas 3 has been    *)
(* loaded and passed on to provisioning                                     *)
C29_Witness ==
    \E w \in Workers :
        /\ pc[w] = "persist_provisioning"
        /\ app[w].spec.image = "nginx:latest"
        /\ app[w].spec.port = 80
        /\ app[w].spec.replicas = 3

-----------------------------------------------------------------------------
(* C30: cloud placement is deterministic. The descriptor a pass writes for  *)
(* a kind placed in the cloud (database endpoint, cache endpoint, bucket    *)
(* name) is the same whenever the provisioner runs: it is the value the     *)
(* stand-in gives for the pass's record at every time of the clock.         *)
C30_CloudPlacementDeterministic ==
    \A w \in Workers :
        ("provisioner" \in did[w] /\ pc[w] \in {"provision", "persist_infra", "done"}) =>
            \A now \in Timestamps :
                /\ app[w].status.databaseEnvironment = EnvironmentAWS =>
                     app[w].status.databaseEndpoint = SetAWSPostgreSQL(app[w]).databaseEndpoint
                /\ app[w].status.redisEnvironment = EnvironmentAWS =>
                     app[w].status.redisEndpoint = SetAWSRedis(app[w]).redisEndpoint
                /\ app[w].status.s3Environment = EnvironmentAWS =>
                     app[w].status.s3BucketName = SetAWSS3(app[w], now).s3BucketName

-----------------------------------------------------------------------------
(* buildEnvironmentVariables, lines 563-610, on records as the deployment   *)
(* branch sees them: the spec's env map and the status the provisioner left *)

EnvVar(name, value) == [name |-> name, value |-> value]

(* The env entries of a manifest, in the order the user wrote them *)
DeclaredEnvs ==
    { << >>,
      << EnvVar("LOG_LEVEL", "debug") >>,
      << EnvVar("LOG_LEVEL", "debug"), EnvVar("API_URL", "http://api") >>,
      << EnvVar("API_URL", "http://api"), EnvVar("LOG_LEVEL", "debug") >> }

(* Spec.Env is a map[string]string: decoding the manifest keeps the entries *)
(* and drops their order                                                    *)
EnvMap(declared) ==
    [k \in { declared[i].name : i \in DOMAIN declared } |->
        declared[CHOOSE i \in DOMAIN declared : declared[i].name = k].value]

(* for key, value := range app.Spec.Env: the orders a range over the map    *)
(* may take (the language leaves the iteration order unspecified)           *)
RangeOrders(m) ==
    { s \in [1..Cardinality(DOMAIN m) -> DOMAIN m] :
        \A i, j \in DOMAIN s : i # j => s[i] # s[j] }

DefaultDatabaseName == "webapp"

(* Lines 573-607: the infrastructure connection details *)
InfrastructureEnv(a) ==
    (IF a.status.databaseEndpoint # ""
     THEN IF a.status.databaseEnvironment = EnvironmentLocal
          THEN << EnvVar("DATABASE_URL", "postgres://appuser:localpassword@"
                            \o a.status.databaseEndpoint \o "/" \o DefaultDatabaseName) >>
          ELSE << EnvVar("DATABASE_URL", "postgres://user:password@"
                            \o a.status.databaseEndpoint \o "/" \o DefaultDatabaseName) >>
     ELSE << >>)
    \o
    (IF a.status.redisEndpoint # ""
     THEN << EnvVar("REDIS_URL", "redis://" \o a.status.redisEndpoint) >>
     ELSE << >>)
    \o
    (IF a.status.s3BucketName # ""
     THEN << EnvVar("S3_BUCKET", a.status.s3BucketName) >>
          \o (IF a.status.s3Environment = EnvironmentLocal
              THEN << EnvVar("S3_ENDPOINT", "http://" \o a.status.s3Endpoint),
                      EnvVar("S3_ACCESS_KEY", "minioadmin"),
                      EnvVar("S3_SECRET_KEY", "minioadmin") >>
              ELSE << >>)
     ELSE << >>)

(* buildEnvironmentVariables when the range over Spec.Env takes order *)
buildEnvironmentVariables(a, order) ==
    [i \in DOMAIN order |-> EnvVar(order[i], a.spec.env[order[i]])] \o InfrastructureEnv(a)

(* The status provisionInfrastructure leaves when every create succeeds *)
RECURSIVE StatusAfter(_, _, _)
StatusAfter(a, td, now) ==
    IF td = << >> THEN MarkInfrastructureReady(a).status
    ELSE IF Head(td).t = "create" THEN StatusAfter(a, Tail(td), now)
    ELSE StatusAfter([a EXCEPT !.status = ApplyStatusStep(a, Head(td).fn, now)], Tail(td), now)

EnvInfraChoices ==
    { Infra(e, pg, rd, s3) :
        e \in {EnvironmentLocal, EnvironmentAWS},
        pg \in {Absent, Requested(EnvUnset, "")},
        rd \in {Absent, Requested(EnvUnset, "")},
        s3 \in {Absent, Requested(EnvUnset, ""), Requested(EnvUnset, "assets")} }

(* spec carries the manifest's env entries (declared) beside the decoded map *)
InitEnv ==
    /\ \E declared \in DeclaredEnvs, i \in EnvInfraChoices :
         LET s == [image |-> "nginx:latest", port |-> 80, replicas |-> 1,
                   infrastructure |-> i, declared |-> declared, env |-> EnvMap(declared)]
             a == [name |-> AppName, spec |-> s,
                   status |-> UpdateStatus(EmptyStatus, PhaseProvisioningInfra,
                                 "Analyzing environment and provisioning infrastructure")]
         IN  /\ spec = s
             /\ status = StatusAfter(a, provisionInfrastructure(a), "1700000000")
    /\ objects = {}
    /\ workload = NoWorkload
    /\ osenv = NoEnv
    /\ InitPass

(* r.Get of the record by a pass of the deployment branch *)
LoadEnv(w) ==
    /\ pc[w] = "idle"
    /\ pc' = [pc EXCEPT ![w] = "create_deployment"]
    /\ app' = [app EXCEPT ![w] = [name |-> AppName, spec |-> spec, status |-> status]]
    /\ start' = [start EXCEPT ![w] = status]
    /\ inSync' = inSync \cup {w}
    /\ UNCHANGED <<spec, status, objects, workload, osenv, todo, result, did, edits>>

(* createOrUpdateDeployment builds the container with its Env, line 645 *)
BuildContainerEnv(w) ==
    /\ pc[w] = "create_deployment"
    /\ \E order \in RangeOrders(app[w].spec.env) :
         workload' = [present |-> TRUE, replicas |-> GetReplicas(app[w]),
                      image |-> app[w].spec.image, port |-> GetPort(app[w]),
                      readyReplicas |-> 0,
                      env |-> buildEnvironmentVariables(app[w], order)]
    /\ objects' = Create(objects, NewObject(DeploymentObj(app[w]), app[w]))
    /\ pc' = [pc EXCEPT ![w] = "create_service"]
    /\ Did(w, {"synthesizer", "create"})
    /\ UNCHANGED <<spec, status, osenv, app, todo, result, start, edits, inSync>>

NextEnv == \E w \in Workers : LoadEnv(w) \/ BuildContainerEnv(w)

SpecEnv == InitEnv /\ [][NextEnv]_vars

(* C31: environment assembly. The Env of the workload's container lists the *)
(* user-declared entries first, in the order of the manifest, then          *)
(* DATABASE_URL iff a database endpoint is set, REDIS_URL iff a cache       *)
(* endpoint is set, S3_BUCKET iff a bucket name is set, and S3_ENDPOINT,    *)
(* S3_ACCESS_KEY, S3_SECRET_KEY iff the object store is placed locally.     *)
Names(env) == [i \in DOMAIN env |-> env[i].name]

DerivedNames(st) ==
    (IF st.databaseEndpoint # "" THEN << "DATABASE_URL" >> ELSE << >>)
    \o (IF st.redisEndpoint # "" THEN << "REDIS_URL" >> ELSE << >>)
    \o (IF st.s3BucketName # "" THEN << "S3_BUCKET" >> ELSE << >>)
    \o (IF st.s3Environment = EnvironmentLocal
        THEN << "S3_ENDPOINT", "S3_ACCESS_KEY", "S3_SECRET_KEY" >> ELSE << >>)

C31_EnvironmentAssembly ==
    workload.present =>
        /\ Names(workload.env) = Names(spec.declared) \o DerivedNames(status)
        /\ \A i \in DOMAIN spec.declared : workload.env[i] = spec.declared[i]

-----------------------------------------------------------------------------
(* C32: the workload needs ready infrastructure. Whenever the Deployment or *)
(* the Service the engine created for the record exists, the persisted      *)
(* phase is Deploying, Ready or Failed and the persisted                    *)
(* infrastructureReady is true; and a pass that has run the synthesizer     *)
(* loaded infrastructureReady true and finds it persisted.                  *)
OwnWorkloadObjects ==
    { o \in OwnObjects : KeyOf(o) \in {DeploymentObj(Stored), ServiceObj(Stored)} }

C32_WorkloadNeedsReadyInfrastructure ==
    /\ OwnWorkloadObjects # {} =>
         /\ status.phase \in {PhaseDeploying, PhaseReady, PhaseFailed}
         /\ status.infrastructureReady
    /\ \A w \in Workers :
         (pc[w] \in {"create_deployment", "create_service"} \/ "synthesizer" \in did[w]) =>
            /\ start[w].infrastructureReady
            /\ status.infrastructureReady

(* The Deployment was created, the create of the Service failed and Failed  *)
(* was persisted: the infrastructure is still marked ready                  *)
C32_Witness ==
    /\ NewObject(DeploymentObj(Stored), Stored) \in objects
    /\ NewObject(ServiceObj(Stored), Stored) \notin objects
    /\ status.phase = PhaseFailed
    /\ status.infrastructureReady
    /\ \E w \in Workers : pc[w] = "done" /\ "synthesizer" \in did[w]

-----------------------------------------------------------------------------
(* C33: Ready implies deployed. In every reachable state, after abandoned   *)
(* passes and failed creates too, a record whose persisted phase is Ready   *)
(* has its Deployment and its Service in the store.                         *)
C33_ReadyImpliesDeployed ==
    status.phase = PhaseReady =>
        /\ Exists(objects, DeploymentObj(Stored))
        /\ Exists(objects, ServiceObj(Stored))

-----------------------------------------------------------------------------
(* types.go 224-226 *)
IsReady(a) == a.status.phase = PhaseReady /\ a.status.readyReplicas > 0

(* C34: Ready implies all replicas counted. As long as the spec is not      *)
(* edited, a persisted status with phase Ready has readyReplicas equal to   *)
(* the resolved replica count, which is at least 1, so IsReady() holds      *)
(* exactly when the persisted phase is Ready.                               *)
C34_ReadyCountsAllReplicas ==
    edits = 0 =>
        /\ status.phase = PhaseReady =>
             /\ status.readyReplicas = GetReplicas(Stored)
             /\ GetReplicas(Stored) >= 1
        /\ IsReady(Stored) <=> status.phase = PhaseReady

(* A record that declares no replicas is Ready with one replica counted *)
C34_Witness ==
    /\ edits = 0
    /\ spec.replicas = 0
    /\ status.phase = PhaseReady
    /\ status.readyReplicas = 1
    /\ IsReady(Stored)

-----------------------------------------------------------------------------
(* The workload drifts: beside the ready count moving (WorkloadStatus), the *)
(* Deployment may be deleted from the store by someone else.                *)
DeploymentDeleted ==
    /\ Exists(objects, DeploymentObj(Stored))
    /\ objects' = { o \in objects : KeyOf(o) # DeploymentObj(Stored) }
    /\ workload' = NoWorkload
    /\ UNCHANGED <<spec, status, osenv, pc, app, todo, result, start, did, edits, inSync>>

NextDrift ==
    \/ Next
    \/ DeploymentDeleted

SpecDrift == Init /\ [][NextDrift]_vars

(* C35: Ready is not re-evaluated. Once the persisted phase is Ready, and   *)
(* as long as the stored spec is valid, no step changes the persisted       *)
(* status: the phase stays Ready and readyReplicas stays as it was, also    *)
(* when the Deployment's ready count drops or the Deployment disappears;    *)
(* a pass that loads the record returns at once.                            *)
C35_ReadyNotReevaluated ==
    [][(status.phase = PhaseReady /\ ValidateSpec(Stored) = "" /\ ValidateSpec(Stored)' = "") =>
          /\ status'.phase = PhaseReady
          /\ status'.readyReplicas = status.readyReplicas
          /\ status' = status
          /\ \A w \in Workers :
               (pc'[w] # pc[w] /\ pc[w] \in {"idle", "done"} /\ "fail:get" \notin did'[w])
                  => pc'[w] = "done" /\ result'[w] = HealthyResult]_vars

(* The Deployment is gone and a pass on the Ready record has returned       *)
(* healthy                                                                  *)
C35_Witness ==
    /\ status.phase = PhaseReady
    /\ status.readyReplicas = GetReplicas(Stored)
    /\ ~Exists(objects, DeploymentObj(Stored))
    /\ ~workload.present
    /\ \E w \in Workers :
         /\ pc[w] = "done"
         /\ start[w].phase = PhaseReady
         /\ result[w] = HealthyResult
         /\ w \in inSync

-----------------------------------------------------------------------------
(* C36: Failed survives a corrected spec. Once the persisted phase is       *)
(* Failed no step moves it out of Failed, whatever edits are made to the    *)
(* desired-state record; a pass that loads the Failed record with a valid   *)
(* spec writes nothing, creates nothing and returns the 1-minute requeue.   *)
C36_FailedSurvivesCorrectedSpec ==
    [][status.phase = PhaseFailed =>
          /\ status'.phase = PhaseFailed
          /\ objects' = objects
          /\ \A w \in Workers :
               (/\ pc[w] \in {"idle", "done"}
                /\ app'[w] # app[w] \/ result'[w] # result[w]
                /\ "fail:get" \notin did'[w]
                /\ ValidateSpec(Stored) = "")
               => /\ pc'[w] = "done"
                  /\ result'[w] = Result(RequeueUnknownPhase, "")
                  /\ RequeueUnknownPhase = 60
                  /\ status' = status]_vars

(* The record failed validation, its spec was corrected, and a pass on the  *)
(* corrected record has returned: the phase is still Failed                 *)
C36_Witness ==
    /\ status.phase = PhaseFailed
    /\ status.message = "Validation failed: image is required"
    /\ edits > 0
    /\ ValidateSpec(Stored) = ""
    /\ \E w \in Workers :
         /\ pc[w] = "done"
         /\ app[w].spec = spec
         /\ start[w] = status
         /\ result[w] = UnknownPhaseResult

-----------------------------------------------------------------------------
(* C37: unchecked persist of Failed. When the pass has set phase Failed     *)
(* after a provisioner or a synthesis error and the persist of that status  *)
(* is refused, the pass still returns its requeue delay (5 minutes after    *)
(* the provisioner, 2 minutes after the synthesizer) with no error, and the *)
(* persisted phase is the one written earlier in the pass                   *)
(* (ProvisioningInfrastructure or Deploying), not Failed.                   *)
FailedPersistRefused(w) == "fail:failed-status" \in did[w]

C37_UncheckedFailedPersist ==
    \A w \in Workers :
        FailedPersistRefused(w) =>
            /\ pc[w] = "done"
            /\ app[w].status.phase = PhaseFailed
            /\ status.phase # PhaseFailed
            /\ result[w].err = ""
            /\ "provisioner" \in did[w] =>
                 /\ result[w] = Result(RequeueProvisionFailed, "")
                 /\ RequeueProvisionFailed = 300
                 /\ status.phase = PhaseProvisioningInfra
            /\ "provisioner" \notin did[w] =>
                 /\ "synthesizer" \in did[w]
                 /\ result[w] = Result(RequeueDeployFailed, "")
                 /\ status.phase = PhaseDeploying

(* The create of the Deployment failed and the persist of Failed was        *)
(* refused: the record is still Deploying and the pass asked for 2 minutes  *)
C37_Witness ==
    \E w \in Workers :
        /\ FailedPersistRefused(w)
        /\ "synthesizer" \in did[w]
        /\ pc[w] = "done"
        /\ result[w] = DeployFailedResult
        /\ status.phase = PhaseDeploying
        /\ ~Exists(objects, DeploymentObj(Stored))

-----------------------------------------------------------------------------
(* C38: provisioning order and abort. The provisioner handles the requested *)
(* kinds in the order database, cache, object store; local database         *)
(* provisioning creates the volume claim, then the StatefulSet, then the    *)
(* Service. The first create error other than already-exists aborts the     *)
(* run: no later object or kind is attempted, infrastructureReady stays     *)
(* false, and the endpoints of the kinds completed before the error are in  *)
(* the status that is persisted with phase Failed.                          *)
PostgresPVC == Obj("PersistentVolumeClaim", AppName \o "-postgres-pvc")
PostgresStatefulSet == Obj("StatefulSet", AppName \o "-postgres")
PostgresService == Obj("Service", AppName \o "-postgres")
DatabaseObjects == {PostgresPVC, PostgresStatefulSet, PostgresService}
CacheObjects == {Obj("Deployment", AppName \o "-redis"), Obj("Service", AppName \o "-redis")}
StorageObjects == {Obj("Deployment", AppName \o "-s3"), Obj("Service", AppName \o "-s3")}

OwnKeys == { KeyOf(o) : o \in OwnObjects }

DatabaseDone(st) == st.databaseEndpoint # ""
CacheDone(st) == st.redisEndpoint # ""
StorageDone(st) == st.s3BucketName # ""

(* The create call the pass is about to send, if any *)
Attempting(w) == IF pc[w] = "provision" THEN {Head(todo[w]).obj} ELSE {}

(* The keys the pass has sent or is sending a create for, as far as the     *)
(* state shows them                                                         *)
Touched(w) == Attempting(w) \cup OwnKeys

KindOrder(w) ==
    LET a == app[w]
        st == a.status
    IN  /\ (Touched(w) \cap CacheObjects # {} \/ CacheDone(st))
              => (NeedsDatabase(a) => DatabaseDone(st))
        /\ (Touched(w) \cap StorageObjects # {} \/ StorageDone(st))
              => /\ NeedsDatabase(a) => DatabaseDone(st)
                 /\ NeedsCache(a) => CacheDone(st)

LocalDatabaseOrder(w) ==
    /\ PostgresStatefulSet \in Touched(w) => Exists(objects, PostgresPVC)
    /\ PostgresService \in Touched(w) =>
          Exists(objects, PostgresPVC) /\ Exists(objects, PostgresStatefulSet)
    /\ app[w].status.databaseEndpoint = AppName \o "-postgres:5432" =>
          \A k \in DatabaseObjects : Exists(objects, k)

(* The index in the provisioner's plan of the create whose error the        *)
(* in-memory message reports                                                *)
FailedSteps(w) ==
    LET plan == provisionInfrastructure(app[w])
    IN  { i \in DOMAIN plan :
            /\ plan[i].t = "create"
            /\ app[w].status.message = "Infrastructure failed: " \o plan[i].wrap \o StoreErr }

StepDone(st, fn) ==
    CASE fn \in {"LocalPostgreSQL", "AWSPostgreSQL"} -> DatabaseDone(st)
      [] fn \in {"LocalRedis", "AWSRedis"} -> CacheDone(st)
      [] fn \in {"LocalS3", "AWSS3"} -> StorageDone(st)

Aborted(w) ==
    LET plan == provisionInfrastructure(app[w])
        st == app[w].status
    IN  /\ pc[w] \in {"persist_failed_infra", "done"}
        /\ todo[w] = << >>
        /\ st.phase = PhaseFailed
        /\ ~st.infrastructureReady
        /\ ~status.infrastructureReady
        /\ Cardinality(FailedSteps(w)) = 1
        /\ \A i \in FailedSteps(w) :
             /\ ~Exists(OwnObjects, plan[i].obj)
             /\ \A j \in DOMAIN plan :
                  /\ (j < i /\ plan[j].t = "create") => Exists(objects, plan[j].obj)
                  /\ (j < i /\ plan[j].t = "status") => StepDone(st, plan[j].fn)
                  /\ (j > i /\ plan[j].t = "create") => ~Exists(OwnObjects, plan[j].obj)
                  /\ (j > i /\ plan[j].t = "status") => ~StepDone(st, plan[j].fn)
        /\ (pc[w] = "done" /\ "fail:failed-status" \notin did[w]) =>
             /\ status = st
             /\ result[w] = ProvisionFailedResult

C38_ProvisioningOrderAndAbort ==
    \A w \in Workers :
        "provisioner" \in did[w] =>
            /\ KindOrder(w)
            /\ LocalDatabaseOrder(w)
            /\ "fail:create" \in did[w] => Aborted(w)

(* The database was provisioned, the create of the Redis Deployment failed: *)
(* Failed is persisted with the database endpoint and without a cache or a  *)
(* storage endpoint, and the pass created nothing after the failing call    *)
C38_Witness ==
    \E w \in Workers :
        /\ "provisioner" \in did[w] /\ "fail:create" \in did[w]
        /\ pc[w] = "done"
        /\ NeedsDatabase(app[w]) /\ NeedsCache(app[w]) /\ NeedsStorage(app[w])
        /\ status.phase = PhaseFailed
        /\ status.message =
             "Infrastructure failed: failed to provision local Redis: failed to create Redis Deployment: "
             \o StoreErr
        /\ status.databaseEndpoint = AppName \o "-postgres:5432"
        /\ status.redisEndpoint = "" /\ status.s3BucketName = ""
        /\ ~status.infrastructureReady
        /\ OwnKeys \cap (CacheObjects \cup StorageObjects) = {}

-----------------------------------------------------------------------------
(* C39: provisioning runs at most once. The provisioner is invoked only by  *)
(* the step that moves the persisted phase from empty or Pending to         *)
(* ProvisioningInfrastructure, and no step, whatever the store answers and  *)
(* whatever edit is made to the spec, brings the persisted phase back to    *)
(* empty or Pending: over the record's lifetime at most one pass invokes    *)
(* the provisioner.                                                         *)
Unprovisioned(st) == st.phase \in {PhaseEmpty, PhasePending}

ProvisionerInvoked(w) == "provisioner" \in did'[w] /\ "provisioner" \notin did[w]

C39_ProvisioningAtMostOnce ==
    [][/\ \A w \in Workers :
            ProvisionerInvoked(w) =>
                /\ Unprovisioned(status)
                /\ status'.phase = PhaseProvisioningInfra
                /\ \A v \in Workers \ {w} : ~ProvisionerInvoked(v)
       /\ ~Unprovisioned(status) => ~Unprovisioned(status')]_vars

(* The provisioner failed, the spec was edited, and the pass that followed  *)
(* returned without provisioning again                                      *)
C39_Witness ==
    \E w \in Workers :
        /\ pc[w] = "done"
        /\ edits > 0
        /\ app[w].spec = spec
        /\ start[w].phase = PhaseFailed
        /\ start[w].message =
             "Infrastructure failed: failed to provision local Redis: failed to create Redis Deployment: "
             \o StoreErr
        /\ did[w] = {}
        /\ ValidateSpec(Stored) = ""
        /\ ~status.infrastructureReady

-----------------------------------------------------------------------------
(* What the persisted status records of each infrastructure kind *)
DatabaseRecorded(st) == st.databaseEndpoint # "" /\ st.databaseEnvironment # EnvUnset
CacheRecorded(st) == st.redisEndpoint # "" /\ st.redisEnvironment # EnvUnset
StorageRecorded(st) ==
    (st.s3Endpoint # "" \/ st.s3BucketName # "") /\ st.s3Environment # EnvUnset

NothingRecorded(st) ==
    /\ st.databaseEndpoint = "" /\ st.databaseEnvironment = EnvUnset
    /\ st.redisEndpoint = "" /\ st.redisEnvironment = EnvUnset
    /\ st.s3Endpoint = "" /\ st.s3BucketName = "" /\ st.s3Environment = EnvUnset

AllRequestedRecorded(a) ==
    /\ NeedsDatabase(a) => DatabaseRecorded(a.status)
    /\ NeedsCache(a) => CacheRecorded(a.status)
    /\ NeedsStorage(a) => StorageRecorded(a.status)

(* C40: all-or-nothing infrastructure status. In every persisted status     *)
(* whose phase is not Failed, either infrastructureReady is true and every  *)
(* requested kind has its endpoint (or bucket name) and placement recorded, *)
(* or infrastructureReady is false and no endpoint, bucket name or          *)
(* placement is set.                                                        *)
C40_AllOrNothing ==
    status.phase # PhaseFailed =>
        IF status.infrastructureReady
        THEN AllRequestedRecorded(Stored)
        ELSE NothingRecorded(status)

====
